---------------------------- MODULE Spec2Model ----------------------------
(***************************************************************************)
(* Query validation of paulmanoni/graph (graphql_validation.go): the four  *)
(* AST analyzers (depth, aliases, complexity, introspection) and the       *)
(* policy ValidateGraphQLQuery that applies them to a request body; and    *)
(* the HTTP handler of handler.go that validates requests and sanitizes    *)
(* responses around the GraphQL handler it wraps.                          *)
(***************************************************************************)
EXTENDS Integers, Sequences, FiniteSets, TLC

VARIABLES
    body,          \* ValidateGraphQLQuery: the queryString argument as passed in
    pc,            \* ValidateGraphQLQuery: position in the function
    queryString,   \* ValidateGraphQLQuery: the local after the JSON unwrapping
    doc,           \* ValidateGraphQLQuery: the parsed document
    depth,         \* ValidateGraphQLQuery: local depth
    aliasCount,    \* ValidateGraphQLQuery: local aliasCount
    complexity,    \* ValidateGraphQLQuery: local complexity
    err,           \* ValidateGraphQLQuery: the returned error
    ran,           \* history: the analyzers called so far, in order
    node,          \* direct analyzer call: the ast.Node argument
    weight,        \* direct analyzer call: the multiplier argument
    call,          \* direct analyzer call: which analyzer was called
    ret,           \* direct analyzer call: the value returned
    arg,           \* NewHTTP: the graphCtx argument as passed in
    graphCtx,      \* NewHTTP: the GraphContext the handler closure reads
    r,             \* handler closure: the request
    hpc,           \* handler closure and RootObjectFn closure: position
    query,         \* handler closure: local query
    validated,     \* history: the texts passed to ValidateGraphQLQuery, in order
    served,        \* history: the writers h.ServeHTTP was called with, in order
    down,          \* what h.ServeHTTP wrote to its writer
    wrapper,       \* responseWriterWrapper: body and statusCode
    resp,          \* what the client's ResponseWriter received
    rootValue,     \* RootObjectFn closure of New: local rootValue
    invoked,       \* history: the functions of the GraphContext the closure called, in order
    wcalls,        \* history: the calls h.ServeHTTP made on the wrapper, in order
    underlying,    \* history: the calls made on the client's ResponseWriter, in order
    rBody,         \* handler closure: r.Body, the reader of the request body
    calls          \* concurrent calls of ValidateGraphQLQuery: arguments and locals

vars == <<body, pc, queryString, doc, depth, aliasCount, complexity, err, ran,
          node, weight, call, ret,
          arg, graphCtx, r, hpc, query, validated, served, down, wrapper, resp,
          rootValue, calls, invoked, wcalls, underlying, rBody>>

(***************************************************************************)
(* Bounds of the model.                                                    *)
(***************************************************************************)
MaxNodes == 3       \* nodes of an exhaustively enumerated selection forest
MaxTower == 10      \* nested fields wrapped around the core of a tower
MaxAliasPad == 5    \* aliased sibling leaves added at the top of a tower
MaxWeight == 3      \* small base weights 1..MaxWeight of a direct complexity call

(***************************************************************************)
(* Go's int: 64 bits, two's complement, wrapping silently on overflow.     *)
(* A word is IntBits/LimbBits limbs, least significant first.             *)
(***************************************************************************)
IntBits == 64
LimbBits == 16
Limb == 2 ^ LimbBits
NumLimbs == IntBits \div LimbBits

RECURSIVE AddLimbs(_, _, _)
\* limb by limb from the least significant one, carrying
AddLimbs(x, y, carry) ==
    IF x = <<>> \/ y = <<>> THEN <<>>
    ELSE LET s == Head(x) + Head(y) + carry
         IN  <<s % Limb>> \o AddLimbs(Tail(x), Tail(y), s \div Limb)

\* x + y on words of the same length, the carry out of the top limb dropped
AddW(x, y) == AddLimbs(x, y, 0)

\* the word of n limbs holding the small natural v (v < Limb * Limb)
NatW(v, n) == <<>> \o [i \in 1..n |-> IF i = 1 THEN v % Limb
                                    ELSE IF i = 2 THEN v \div Limb ELSE 0]

\* int(v)
IntW(v) == NatW(v, NumLimbs)

\* the word of n limbs holding 2^e
PowW(e, n) ==
    <<>> \o [i \in 1..n |-> IF i = (e \div LimbBits) + 1 THEN 2 ^ (e % LimbBits) ELSE 0]

\* x < 0, the sign bit of the top limb
IsNeg(x) == x[Len(x)] >= Limb \div 2

\* x > v for a word x and a small natural v (signed comparison)
GtW(x, v) ==
    /\ ~IsNeg(x)
    /\ \/ \E i \in 3..Len(x) : x[i] > 0
       \/ x[2] > v \div Limb
       \/ x[2] = v \div Limb /\ x[1] > v % Limb

(***************************************************************************)
(* The AST of graphql-go/language/ast, as far as the analyzers read it.    *)
(* A nil pointer is a record with isNil = TRUE.                            *)
(***************************************************************************)
NilName == [isNil |-> TRUE, Value |-> ""]
Name(v) == [isNil |-> FALSE, Value |-> v]
NilSelectionSet == [isNil |-> TRUE, Selections |-> <<>>]
SelectionSet(sels) == [isNil |-> FALSE, Selections |-> sels]

Field(name, alias, ss) ==
    [Kind |-> "Field", Name |-> name, Alias |-> alias, SelectionSet |-> ss]
InlineFragment(ss) ==
    [Kind |-> "InlineFragment", Name |-> NilName, Alias |-> NilName, SelectionSet |-> ss]
FragmentSpread(name) ==
    [Kind |-> "FragmentSpread", Name |-> Name(name), Alias |-> NilName,
     SelectionSet |-> NilSelectionSet]

OperationDefinition(ss) == [Kind |-> "OperationDefinition", SelectionSet |-> ss]
FragmentDefinition(ss) == [Kind |-> "FragmentDefinition", SelectionSet |-> ss]
\* any other definition the parser accepts (type system definitions)
TypeDefinition == [Kind |-> "TypeDefinition", SelectionSet |-> NilSelectionSet]
Document(defs) == [Kind |-> "Document", Definitions |-> defs]


(***************************************************************************)
(* Depth analyzer.                                                         *)
(***************************************************************************)
\* a fault: an inline fragment counted as a level
InlineFragmentDepthCounted(currentDepth) == currentDepth + 1

\* the depth at which the body of an inline fragment is walked
InlineFragmentDepth(currentDepth) == currentDepth

\* the depth a fragment spread contributes
FragmentSpreadDepth(currentDepth) == currentDepth

\* a fault: a field without selection set not counted as a level
LeafFieldDepthUncounted(currentDepth) == currentDepth

\* the depth a field without selection set contributes
LeafFieldDepth(currentDepth) == currentDepth + 1

RECURSIVE calculateSelectionSetDepth(_, _)
RECURSIVE SelectionSetDepthAfter(_, _, _)
\* maxDepth of calculateSelectionSetDepth after the first n iterations of its loop
SelectionSetDepthAfter(sels, n, currentDepth) ==
    IF n = 0 THEN currentDepth
    ELSE LET depth_ ==
                CASE sels[n].Kind = "Field" /\ ~sels[n].SelectionSet.isNil ->
                        calculateSelectionSetDepth(sels[n].SelectionSet, currentDepth + 1)
                  [] sels[n].Kind = "Field" -> LeafFieldDepth(currentDepth)
                  [] sels[n].Kind = "InlineFragment" /\ ~sels[n].SelectionSet.isNil ->
                        calculateSelectionSetDepth(sels[n].SelectionSet,
                                                   InlineFragmentDepth(currentDepth))
                  [] sels[n].Kind = "FragmentSpread" -> FragmentSpreadDepth(currentDepth)
                  [] OTHER -> 0
             maxDepth_ == SelectionSetDepthAfter(sels, n - 1, currentDepth)
         IN  IF depth_ > maxDepth_ THEN depth_ ELSE maxDepth_

\* a fault: the selection set itself counted as a level
SelectionSetDepthCounted(selectionSet, currentDepth) ==
    SelectionSetDepthAfter(selectionSet.Selections, Len(selectionSet.Selections),
                           currentDepth + 1)

calculateSelectionSetDepth(selectionSet, currentDepth) ==
    SelectionSetDepthAfter(selectionSet.Selections, Len(selectionSet.Selections),
                           currentDepth)

RECURSIVE calculateQueryDepth(_, _)
RECURSIVE QueryDepthAfter(_, _, _)
\* maxDepth of calculateQueryDepth after the first n definitions of a Document
QueryDepthAfter(defs, n, currentDepth) ==
    IF n = 0 THEN currentDepth
    ELSE LET depth_ == calculateQueryDepth(defs[n], currentDepth)
             maxDepth_ == QueryDepthAfter(defs, n - 1, currentDepth)
         IN  IF depth_ > maxDepth_ THEN depth_ ELSE maxDepth_

calculateQueryDepth(n, currentDepth) ==
    CASE n.Kind = "Document" ->
            QueryDepthAfter(n.Definitions, Len(n.Definitions), currentDepth)
      [] n.Kind \in {"OperationDefinition", "FragmentDefinition"}
         /\ ~n.SelectionSet.isNil ->
            LET depth_ == calculateSelectionSetDepth(n.SelectionSet, currentDepth)
            IN  IF depth_ > currentDepth THEN depth_ ELSE currentDepth
      [] OTHER -> currentDepth

(***************************************************************************)
(* Alias analyzer.                                                         *)
(***************************************************************************)
\* a fault: the test for the empty alias left out
HasAliasNode(sel) == ~sel.Alias.isNil

\* sel.Alias != nil && sel.Alias.Value != ""
HasAlias(sel) == ~sel.Alias.isNil /\ sel.Alias.Value # ""

RECURSIVE countSelectionSetAliases(_)
RECURSIVE SelectionSetAliasesAfter(_, _)
\* count of countSelectionSetAliases after the first n iterations of its loop
SelectionSetAliasesAfter(sels, n) ==
    IF n = 0 THEN 0
    ELSE (CASE sels[n].Kind \in {"Field", "InlineFragment"}
               /\ ~sels[n].SelectionSet.isNil ->
                    countSelectionSetAliases(sels[n].SelectionSet)
            [] OTHER -> 0)
         + (IF sels[n].Kind = "Field" /\ HasAlias(sels[n]) THEN 1 ELSE 0)
         + SelectionSetAliasesAfter(sels, n - 1)

countSelectionSetAliases(selectionSet) ==
    SelectionSetAliasesAfter(selectionSet.Selections, Len(selectionSet.Selections))

RECURSIVE countAliases(_)
RECURSIVE AliasesAfter(_, _)
\* count of countAliases after the first n definitions of a Document
AliasesAfter(defs, n) ==
    IF n = 0 THEN 0 ELSE countAliases(defs[n]) + AliasesAfter(defs, n - 1)

countAliases(n) ==
    CASE n.Kind = "Document" -> AliasesAfter(n.Definitions, Len(n.Definitions))
      [] n.Kind \in {"OperationDefinition", "FragmentDefinition"}
         /\ ~n.SelectionSet.isNil -> countSelectionSetAliases(n.SelectionSet)
      [] OTHER -> 0

(***************************************************************************)
(* Complexity analyzer. multiplier and complexity are Go ints (words).     *)
(***************************************************************************)
\* a fault: multiplier*4 below a field
NestedMultiplierTimesFour(multiplier) ==
    AddW(AddW(multiplier, multiplier), AddW(multiplier, multiplier))

\* multiplier*2, the multiplier of a field's nested selection set
NestedMultiplier(multiplier) == AddW(multiplier, multiplier)

\* a fault: the body of an inline fragment walked at the doubled multiplier
InlineFragmentMultiplierDoubled(multiplier) == AddW(multiplier, multiplier)

\* the multiplier at which the body of an inline fragment is walked
InlineFragmentMultiplier(multiplier) == multiplier

\* a fault: a fragment spread costed like a field with one field below it
FragmentSpreadComplexityNested(multiplier) ==
    AddW(multiplier, AddW(multiplier, multiplier))

\* what a fragment spread adds
FragmentSpreadComplexity(multiplier) == multiplier

RECURSIVE calculateSelectionSetComplexity(_, _)
RECURSIVE SelectionSetComplexityAfter(_, _, _)
\* complexity of calculateSelectionSetComplexity after the first n iterations of
\* its loop: what the earlier iterations left, plus the base complexity of
\* selection n, plus the complexity of its nested selections
SelectionSetComplexityAfter(sels, n, multiplier) ==
    IF n = 0 THEN NatW(0, Len(multiplier))
    ELSE AddW(AddW(SelectionSetComplexityAfter(sels, n - 1, multiplier),
                   CASE sels[n].Kind = "Field" -> multiplier
                     [] sels[n].Kind = "FragmentSpread" ->
                            FragmentSpreadComplexity(multiplier)
                     [] OTHER -> NatW(0, Len(multiplier))),
              CASE sels[n].Kind = "Field" /\ ~sels[n].SelectionSet.isNil ->
                        calculateSelectionSetComplexity(sels[n].SelectionSet,
                                                        NestedMultiplier(multiplier))
                [] sels[n].Kind = "InlineFragment" /\ ~sels[n].SelectionSet.isNil ->
                        calculateSelectionSetComplexity(sels[n].SelectionSet,
                                                        InlineFragmentMultiplier(multiplier))
                [] OTHER -> NatW(0, Len(multiplier)))

calculateSelectionSetComplexity(selectionSet, multiplier) ==
    SelectionSetComplexityAfter(selectionSet.Selections, Len(selectionSet.Selections),
                                multiplier)

RECURSIVE calculateQueryComplexity(_, _)
RECURSIVE QueryComplexityAfter(_, _, _)
\* complexity of calculateQueryComplexity after the first n definitions of a Document
QueryComplexityAfter(defs, n, multiplier) ==
    IF n = 0 THEN NatW(0, Len(multiplier))
    ELSE AddW(QueryComplexityAfter(defs, n - 1, multiplier),
              calculateQueryComplexity(defs[n], multiplier))

calculateQueryComplexity(n, multiplier) ==
    CASE n.Kind = "Document" ->
            QueryComplexityAfter(n.Definitions, Len(n.Definitions), multiplier)
      [] n.Kind \in {"OperationDefinition", "FragmentDefinition"}
         /\ ~n.SelectionSet.isNil ->
            calculateSelectionSetComplexity(n.SelectionSet, multiplier)
      [] OTHER -> NatW(0, Len(multiplier))

(***************************************************************************)
(* Introspection detector.                                                 *)
(***************************************************************************)
\* a fault: the names compared by prefix (over the names of the model)
IsIntrospectionPrefix(fieldName) ==
    fieldName \in {"__schema", "__type", "__schemas", "__typename"}

\* fieldName == "__schema" || fieldName == "__type"
IsIntrospectionName(fieldName) == fieldName = "__schema" \/ fieldName = "__type"

\* sel.Name != nil and its value is an introspection name
FieldIsIntrospection(sel) == ~sel.Name.isNil /\ IsIntrospectionName(sel.Name.Value)

RECURSIVE hasIntrospectionInSelectionSet(_)
RECURSIVE IntrospectionInSelectionsFrom(_, _)
\* the loop of hasIntrospectionInSelectionSet from selection i on: true as soon
\* as a selection is an introspection field or holds one
IntrospectionInSelectionsFrom(sels, i) ==
    /\ i <= Len(sels)
    /\ \/ sels[i].Kind = "Field" /\ FieldIsIntrospection(sels[i])
       \/ /\ sels[i].Kind \in {"Field", "InlineFragment"}
          /\ ~sels[i].SelectionSet.isNil
          /\ hasIntrospectionInSelectionSet(sels[i].SelectionSet)
       \/ IntrospectionInSelectionsFrom(sels, i + 1)

hasIntrospectionInSelectionSet(selectionSet) ==
    IntrospectionInSelectionsFrom(selectionSet.Selections, 1)

RECURSIVE hasIntrospection(_)
RECURSIVE IntrospectionInDefinitionsFrom(_, _)
\* the loop of hasIntrospection over the definitions from i on
IntrospectionInDefinitionsFrom(defs, i) ==
    /\ i <= Len(defs)
    /\ hasIntrospection(defs[i]) \/ IntrospectionInDefinitionsFrom(defs, i + 1)

\* a fault: fragment definitions left out of the introspection check
hasIntrospectionInOperations(n) ==
    CASE n.Kind = "Document" -> IntrospectionInDefinitionsFrom(n.Definitions, 1)
      [] n.Kind = "OperationDefinition"
         /\ ~n.SelectionSet.isNil -> hasIntrospectionInSelectionSet(n.SelectionSet)
      [] OTHER -> FALSE

hasIntrospection(n) ==
    CASE n.Kind = "Document" -> IntrospectionInDefinitionsFrom(n.Definitions, 1)
      [] n.Kind \in {"OperationDefinition", "FragmentDefinition"}
         /\ ~n.SelectionSet.isNil -> hasIntrospectionInSelectionSet(n.SelectionSet)
      [] OTHER -> FALSE

(***************************************************************************)
(* The thresholds of ValidateGraphQLQuery.                                 *)
(***************************************************************************)
maxDepth == 10
maxAliases == 4
maxComplexity == 200

(***************************************************************************)
(* The documents of the model.  Small documents enumerate every selection  *)
(* forest of at most MaxNodes nodes; towers nest fields deeply and pad the *)
(* top selection set, to reach the thresholds and the width of int; odd    *)
(* documents hold the nodes only a hand-built AST or a rare query has.     *)
(***************************************************************************)
PlainLeaf == Field(Name("a"), NilName, NilSelectionSet)
AliasedLeaf == Field(Name("a"), Name("x"), NilSelectionSet)
SchemaLeaf == Field(Name("__schema"), NilName, NilSelectionSet)

LeafSelections ==
    { PlainLeaf, AliasedLeaf, SchemaLeaf,
      Field(Name("__typename"), NilName, NilSelectionSet),
      FragmentSpread("F") }

Wrappers == {"field", "aliased", "schema", "inline"}

Wrap(w, ss) ==
    CASE w = "field" -> Field(Name("a"), NilName, ss)
      [] w = "aliased" -> Field(Name("a"), Name("x"), ss)
      [] w = "schema" -> Field(Name("__schema"), NilName, ss)
      [] w = "inline" -> InlineFragment(ss)

RECURSIVE Forests(_)
RECURSIVE Trees(_)
\* the sequences of selections with exactly n nodes in all
Forests(n) ==
    IF n = 0 THEN {<<>>}
    ELSE UNION { { <<t>> \o f : t \in Trees(k), f \in Forests(n - k) } : k \in 1..n }
\* the selections with exactly k nodes
Trees(k) ==
    IF k = 1 THEN LeafSelections
    ELSE { Wrap(w, SelectionSet(f)) : w \in Wrappers, f \in Forests(k - 1) }

DefKinds == {"OperationDefinition", "FragmentDefinition"}
Definition(kind, ss) == [Kind |-> kind, SelectionSet |-> ss]

ForestPairs ==
    UNION { Forests(q[1]) \X Forests(q[2]) :
              q \in { s \in (1..MaxNodes) \X (1..MaxNodes) : s[1] + s[2] <= MaxNodes } }

SmallDocs ==
    { Document(<<>>), Document(<<TypeDefinition>>),
      Document(<<TypeDefinition, OperationDefinition(SelectionSet(<<AliasedLeaf>>))>>) }
    \cup { Document(<<OperationDefinition(SelectionSet(f))>>) :
             f \in UNION { Forests(n) : n \in 1..MaxNodes } }
    \cup { Document(<<FragmentDefinition(SelectionSet(f))>>) :
             f \in UNION { Forests(n) : n \in 1..(MaxNodes - 1) } }
    \cup { Document(<<OperationDefinition(SelectionSet(p[1])),
                      FragmentDefinition(SelectionSet(p[2]))>>) : p \in ForestPairs }
    \cup { Document(<<FragmentDefinition(SelectionSet(p[1])),
                      OperationDefinition(SelectionSet(p[2]))>>) :
             p \in Forests(1) \X Forests(1) }

\* nodes the parser never builds, and rare names
OddSelections ==
    { Field(Name("a"), Name(""), NilSelectionSet),
      Field(NilName, NilName, NilSelectionSet),
      Field(NilName, Name("x"), SelectionSet(<<SchemaLeaf>>)),
      InlineFragment(NilSelectionSet),
      InlineFragment(SelectionSet(<<>>)),
      Field(Name("a"), NilName, SelectionSet(<<>>)),
      Field(Name("__type"), NilName, NilSelectionSet),
      Field(Name("a"), Name("__schema"), NilSelectionSet),
      Field(Name("a"), Name("__type"), NilSelectionSet),
      Field(Name("__schemas"), NilName, NilSelectionSet),
      Field(Name("_schema"), NilName, NilSelectionSet) }

OddDocs ==
    { Document(<<Definition(k, NilSelectionSet)>>) : k \in DefKinds }
    \cup { Document(<<Definition(k, SelectionSet(<<>>))>>) : k \in DefKinds }
    \cup { Document(<<Definition(k, SelectionSet(<<Wrap(w, SelectionSet(<<o>>))>>))>>) :
             k \in DefKinds, w \in Wrappers, o \in OddSelections }
    \cup { Document(<<OperationDefinition(SelectionSet(f))>>) :
             f \in { <<o>> : o \in OddSelections }
                   \cup { <<PlainLeaf, o>> : o \in OddSelections }
                   \cup { <<o, AliasedLeaf>> : o \in OddSelections } }

\* documents of two definitions without selections
EmptySelectionSets == {NilSelectionSet, SelectionSet(<<>>)}
EmptyDocs ==
    { Document(<<Definition(p[1], p[2]), Definition(q[1], q[2])>>) :
        p \in DefKinds \X EmptySelectionSets, q \in DefKinds \X EmptySelectionSets }
    \cup { Document(<<TypeDefinition, Definition(k, SelectionSet(<<>>))>>) : k \in DefKinds }

TowerCores ==
    { <<PlainLeaf>>, <<SchemaLeaf>>, <<FragmentSpread("F")>>,
      <<InlineFragment(SelectionSet(<<PlainLeaf>>))>> }

\* the height whose bare tower costs at most maxComplexity and whose filled one more
BoundaryHeight ==
    CHOOSE n \in 0..MaxTower :
        2 ^ (n + 1) - 1 <= maxComplexity /\ maxComplexity < 2 ^ (n + 2) - 1

\* the levels of a tower of height n around core that get one more plain leaf
FlagSets(n, core) ==
    IF n = BoundaryHeight /\ core = <<PlainLeaf>> THEN SUBSET (0..n) ELSE {{}}

RECURSIVE TowerLevel(_, _, _, _)
\* the selections at level k of a tower: a plain leaf when k is flagged, then the
\* next nested field (the core at level n)
TowerLevel(n, k, core, flags) ==
    (IF k \in flags THEN <<PlainLeaf>> ELSE <<>>)
    \o (IF k = n THEN core
        ELSE <<[Kind |-> "Field", Name |-> Name("a"), Alias |-> NilName,
                SelectionSet |-> [isNil |-> FALSE,
                                  Selections |-> TowerLevel(n, k + 1, core, flags)]]>>)

Repeat(sel, c) == [i \in 1..c |-> sel]

\* j aliased leaves at the top, then n nested fields around core, a plain leaf
\* before the nested field at the flagged levels
Tower(n, core, flags, j) ==
    Document(<<OperationDefinition(
        SelectionSet(Repeat(AliasedLeaf, j) \o TowerLevel(n, 0, core, flags)))>>)

TowerDocs ==
    UNION { UNION { { Tower(n, core, flags, j) :
                        flags \in FlagSets(n, core), j \in 0..MaxAliasPad } :
                    core \in TowerCores } :
            n \in 0..MaxTower }

\* the height of the operations that reference a fragment
SpreadHeight == BoundaryHeight - 1

\* the bodies of the referenced fragment: nested fields, aliased fields, a
\* reserved field
FragmentBodies ==
    { TowerLevel(SpreadHeight, 0, <<PlainLeaf>>, {}),
      <<AliasedLeaf, AliasedLeaf>>,
      <<SchemaLeaf>> }

\* an operation that references the fragment F c times below h nested fields (at
\* the top when h = 0), and the definition of F
SpreadDocs ==
    { Document(<<OperationDefinition(SelectionSet(
                  IF h = 0 THEN <<PlainLeaf>> \o Repeat(FragmentSpread("F"), c)
                  ELSE TowerLevel(h, 0, Repeat(FragmentSpread("F"), c), {}))),
                 FragmentDefinition(SelectionSet(b))>>) :
        h \in {0, SpreadHeight}, c \in 0..MaxNodes, b \in FragmentBodies }

AllDocs == SmallDocs \cup OddDocs \cup EmptyDocs \cup TowerDocs \cup SpreadDocs

(***************************************************************************)
(* Request texts.  A text is the empty string, a well-formed GraphQL       *)
(* source (given by the document it parses to), a JSON text (given by its  *)
(* value), or anything else, which neither parser accepts.  No JSON text   *)
(* is a GraphQL source: a source starts with a name, a brace followed by a *)
(* name or a spread, or a description.                                     *)
(***************************************************************************)
NoDoc == Document(<<>>)
NoWord == IntW(0)
NoError == [isNil |-> TRUE, format |-> "", args |-> <<>>]

EmptyText == [Kind |-> "empty"]
MalformedText == [Kind |-> "malformed"]
GraphQLText(d) == [Kind |-> "graphql", Doc |-> d]
JsonText(v) == [Kind |-> "json", Json |-> v]

JsonObject(members) == [Type |-> "object", Members |-> members]
JsonString(text) == [Type |-> "string", Str |-> text]
JsonNumber == [Type |-> "number"]
JsonNull == [Type |-> "null"]
JsonArray == [Type |-> "array"]
NoMembers == <<>>

\* json.Unmarshal([]byte(text), &m) for m of type map[string]interface{}: an
\* object fills the map, null leaves it nil, anything else is an error
UnmarshalMap(text) ==
    IF text.Kind = "json" /\ text.Json.Type = "object"
    THEN [err |-> FALSE, map |-> text.Json.Members]
    ELSE IF text.Kind = "json" /\ text.Json.Type = "null"
    THEN [err |-> FALSE, map |-> NoMembers]
    ELSE [err |-> TRUE, map |-> NoMembers]

\* m["query"].(string): ok only for a present key holding a string
QueryMember(m) ==
    IF "query" \in DOMAIN m /\ m["query"].Type = "string"
    THEN [ok |-> TRUE, query |-> m["query"].Str]
    ELSE [ok |-> FALSE, query |-> EmptyText]

\* a fault: the envelope unwrapped again while the query is an envelope itself
ExtractQueryStringTwice(text) ==
    LET u == UnmarshalMap(text)
        q == QueryMember(u.map).query
        v == UnmarshalMap(q)
    IN  IF ~u.err /\ QueryMember(u.map).ok
        THEN IF ~v.err /\ QueryMember(v.map).ok THEN QueryMember(v.map).query ELSE q
        ELSE text

\* the query text ValidateGraphQLQuery hands to the parser
ExtractQueryString(text) ==
    LET u == UnmarshalMap(text)
    IN  IF ~u.err /\ QueryMember(u.map).ok THEN QueryMember(u.map).query ELSE text

\* parser.Parse: the document of a well-formed source, the empty document of
\* the empty source, an error otherwise
Parse(text) ==
    IF text.Kind = "graphql" THEN [err |-> FALSE, doc |-> text.Doc]
    ELSE IF text.Kind = "empty" THEN [err |-> FALSE, doc |-> Document(<<>>)]
    ELSE [err |-> TRUE, doc |-> Document(<<>>)]

RECURSIVE ParserSelections(_)
\* the selection sets the parser builds: never empty, a name on every field, no
\* empty alias, a selection set on every inline fragment
ParserSelections(sels) ==
    /\ Len(sels) > 0
    /\ \A i \in 1..Len(sels) :
         LET sel == sels[i]
         IN  CASE sel.Kind = "Field" ->
                    /\ ~sel.Name.isNil
                    /\ sel.Alias.isNil \/ sel.Alias.Value # ""
                    /\ sel.SelectionSet.isNil \/ ParserSelections(sel.SelectionSet.Selections)
               [] sel.Kind = "InlineFragment" ->
                    /\ ~sel.SelectionSet.isNil
                    /\ ParserSelections(sel.SelectionSet.Selections)
               [] OTHER -> TRUE

ParserDocument(d) ==
    \A i \in 1..Len(d.Definitions) :
        LET def == d.Definitions[i]
        IN  def.Kind \in DefKinds =>
                ~def.SelectionSet.isNil /\ ParserSelections(def.SelectionSet.Selections)

\* { a { b { c { d { e { f } } } } } }
ScenarioB ==
    LET F(name, sels) == Field(Name(name), NilName, SelectionSet(sels))
    IN  Document(<<OperationDefinition(SelectionSet(
            <<F("a", <<F("b", <<F("c", <<F("d", <<F("e",
                <<Field(Name("f"), NilName, NilSelectionSet)>>)>>)>>)>>)>>)>>))>>)

ParserDocs == { d \in AllDocs \cup {ScenarioB} : ParserDocument(d) }

\* the documents sent inside a JSON envelope
EnvelopeDocs ==
    { Document(<<OperationDefinition(SelectionSet(f))>>) : f \in Forests(1) \cup Forests(2) }
    \cup { Tower(n, core, {}, j) :
             n \in 0..MaxTower, core \in TowerCores, j \in {0, MaxAliasPad} }
    \cup { Tower(BoundaryHeight, <<PlainLeaf>>, flags, 0) : flags \in SUBSET (0..BoundaryHeight) }

Envelope(q) == JsonText(JsonObject("query" :> JsonString(q)))

EnvelopeQueries ==
    { EmptyText, MalformedText, JsonText(JsonNumber),
      Envelope(GraphQLText(Document(<<OperationDefinition(SelectionSet(<<SchemaLeaf>>))>>))) }
    \cup { GraphQLText(d) : d \in EnvelopeDocs }

JsonBodies ==
    { Envelope(q) : q \in EnvelopeQueries }
    \cup { JsonText(JsonObject(("query" :> JsonString(q)) @@ ("variables" :> JsonNull))) :
             q \in EnvelopeQueries }
    \cup { JsonText(v) :
             v \in { JsonObject(NoMembers), JsonObject("query" :> JsonNumber),
                     JsonObject("query" :> JsonNull),
                     JsonObject("query" :> JsonObject(NoMembers)),
                     JsonObject("variables" :> JsonString(MalformedText)),
                     JsonNull, JsonNumber, JsonArray,
                     JsonString(GraphQLText(
                        Document(<<OperationDefinition(SelectionSet(<<SchemaLeaf>>))>>))) } }

Bodies ==
    { EmptyText, MalformedText } \cup { GraphQLText(d) : d \in ParserDocs } \cup JsonBodies

(***************************************************************************)
(* ValidateGraphQLQuery(queryString, schema), one action per statement.    *)
(***************************************************************************)
\* a fault: the error built from the format alone, its values left out
ErrorfBare(format, args) == [isNil |-> FALSE, format |-> format, args |-> <<>>]
\* fmt.Errorf(format, args...)
Errorf(format, args) == [isNil |-> FALSE, format |-> format, args |-> args]

IntrospectionFormat == "GraphQL introspection is disabled"
DepthFormat == "query depth exceeds maximum allowed depth of %d (actual: %d)"
AliasFormat == "query contains too many aliases. Maximum allowed: %d, found: %d"
ComplexityFormat ==
    "query complexity exceeds maximum allowed complexity of %d (actual: %d)"

\* depth > maxDepth
DepthExceeded(d) == d > maxDepth
\* a fault: the alias limit itself rejected
AliasesExceededAtLimit(c) == c >= maxAliases
\* aliasCount > maxAliases
AliasesExceeded(c) == c > maxAliases
\* complexity > maxComplexity
ComplexityExceeded(c) == GtW(c, maxComplexity)

\* a fault: the parse error returned to the caller
ParseErrorSurfaced == Errorf("%v", <<"syntax error">>)
\* what ValidateGraphQLQuery returns for a parse error
ParseErrorVerdict == NoError
\* what ValidateGraphQLQuery returns for the empty queryString
EmptyQueryVerdict == NoError

\* a fault: the alias check placed before the depth check
NextCheckAliasesFirst(check) ==
    CASE check = "parse" -> "introspection"
      [] check = "introspection" -> "aliases"
      [] check = "aliases" -> "depth"
      [] check = "depth" -> "complexity"
      [] check = "complexity" -> "done"

\* the order of the checks: the statement reached when a check passes
NextCheck(check) ==
    CASE check = "parse" -> "introspection"
      [] check = "introspection" -> "depth"
      [] check = "depth" -> "aliases"
      [] check = "aliases" -> "complexity"
      [] check = "complexity" -> "done"

AnalyzeVars == <<node, weight, call, ret>>

\* the variables of the HTTP handler, of the root object closure and of the
\* concurrent calls, and their values while none of these runs
HandlerVars ==
    <<arg, graphCtx, r, hpc, query, validated, served, down, wrapper, resp,
      rootValue, calls, invoked, wcalls, underlying, rBody>>

NoFn == [isNil |-> TRUE]
NoContext ==
    [isNil |-> TRUE, DEBUG |-> FALSE, Playground |-> FALSE, EnableValidation |-> FALSE,
     EnableSanitization |-> FALSE, RootObjectFn |-> NoFn, TokenExtractorFn |-> NoFn,
     UserDetailsFn |-> NoFn]
NoRequest ==
    [Method |-> "", ContentType |-> "", URLQuery |-> EmptyText, Body |-> EmptyText,
     ReadErr |-> FALSE, Authorization |-> <<>>]
NoResponse == [written |-> FALSE, Status |-> 0, ContentType |-> "", Body |-> EmptyText]
NoWrapper == [isNil |-> TRUE, body |-> EmptyText, statusCode |-> 0]
NoRootValue == [isNil |-> TRUE, entries |-> <<>>]
\* a reader at its end
NoReader == [unread |-> EmptyText]

HTTPIdle ==
    /\ arg = NoContext
    /\ graphCtx = NoContext
    /\ r = NoRequest
    /\ hpc = "off"
    /\ query = EmptyText
    /\ validated = <<>>
    /\ served = <<>>
    /\ down = NoResponse
    /\ wrapper = NoWrapper
    /\ resp = NoResponse
    /\ rootValue = NoRootValue
    /\ rBody = NoReader
    /\ underlying = <<>>
    /\ wcalls = <<>>
    /\ invoked = <<>>

HandlerIdle == HTTPIdle /\ calls = <<>>

AnalyzeIdle ==
    /\ node = NoDoc
    /\ weight = NoWord
    /\ call = "off"
    /\ ret = [depth |-> 0, aliases |-> 0, complexity |-> NoWord, introspection |-> FALSE]

Init ==
    /\ AnalyzeIdle
    /\ HandlerIdle
    /\ body \in Bodies
    /\ pc = "start"
    /\ queryString = body
    /\ doc = NoDoc
    /\ depth = 0
    /\ aliasCount = 0
    /\ complexity = NoWord
    /\ err = NoError
    /\ ran = <<>>

\* if queryString == "" { return nil }
ReturnEmpty ==
    /\ pc = "start"
    /\ queryString = EmptyText
    /\ pc' = "done"
    /\ err' = EmptyQueryVerdict
    /\ UNCHANGED <<body, queryString, doc, depth, aliasCount, complexity, ran, AnalyzeVars, HandlerVars>>

\* the JSON unwrapping of queryString
ExtractQuery ==
    /\ pc = "start"
    /\ queryString # EmptyText
    /\ queryString' = ExtractQueryString(queryString)
    /\ pc' = "parse"
    /\ UNCHANGED <<body, doc, depth, aliasCount, complexity, err, ran, AnalyzeVars, HandlerVars>>

\* parser.Parse fails: return nil
ParseFail ==
    /\ pc = "parse"
    /\ Parse(queryString).err
    /\ pc' = "done"
    /\ err' = ParseErrorVerdict
    /\ UNCHANGED <<body, queryString, doc, depth, aliasCount, complexity, ran, AnalyzeVars, HandlerVars>>

ParseOk ==
    /\ pc = "parse"
    /\ ~Parse(queryString).err
    /\ doc' = Parse(queryString).doc
    /\ pc' = NextCheck("parse")
    /\ UNCHANGED <<body, queryString, depth, aliasCount, complexity, err, ran, AnalyzeVars, HandlerVars>>

CheckIntrospection ==
    /\ pc = "introspection"
    /\ ran' = Append(ran, "hasIntrospection")
    /\ IF hasIntrospection(doc)
       THEN pc' = "done" /\ err' = Errorf(IntrospectionFormat, <<>>)
       ELSE pc' = NextCheck("introspection") /\ err' = err
    /\ UNCHANGED <<body, queryString, doc, depth, aliasCount, complexity, AnalyzeVars, HandlerVars>>

CheckDepth ==
    /\ pc = "depth"
    /\ ran' = Append(ran, "calculateQueryDepth")
    /\ depth' = calculateQueryDepth(doc, 0)
    /\ IF DepthExceeded(depth')
       THEN pc' = "done" /\ err' = Errorf(DepthFormat, <<IntW(maxDepth), IntW(depth')>>)
       ELSE pc' = NextCheck("depth") /\ err' = err
    /\ UNCHANGED <<body, queryString, doc, aliasCount, complexity, AnalyzeVars, HandlerVars>>

CheckAliases ==
    /\ pc = "aliases"
    /\ ran' = Append(ran, "countAliases")
    /\ aliasCount' = countAliases(doc)
    /\ IF AliasesExceeded(aliasCount')
       THEN pc' = "done"
            /\ err' = Errorf(AliasFormat, <<IntW(maxAliases), IntW(aliasCount')>>)
       ELSE pc' = NextCheck("aliases") /\ err' = err
    /\ UNCHANGED <<body, queryString, doc, depth, complexity, AnalyzeVars, HandlerVars>>

CheckComplexity ==
    /\ pc = "complexity"
    /\ ran' = Append(ran, "calculateQueryComplexity")
    /\ complexity' = calculateQueryComplexity(doc, IntW(1))
    /\ pc' = "done"
    /\ IF ComplexityExceeded(complexity')
       THEN err' = Errorf(ComplexityFormat, <<IntW(maxComplexity), complexity'>>)
       ELSE err' = err
    /\ UNCHANGED <<body, queryString, doc, depth, aliasCount, AnalyzeVars, HandlerVars>>

Next ==
    \/ ReturnEmpty
    \/ ExtractQuery
    \/ ParseFail
    \/ ParseOk
    \/ CheckIntrospection
    \/ CheckDepth
    \/ CheckAliases
    \/ CheckComplexity

Spec == Init /\ [][Next]_vars

(***************************************************************************)
(* Direct calls of the analyzers on a document.  The base weights are the  *)
(* small ones and the powers of two near the width of int.                 *)
(***************************************************************************)
Weights ==
    { IntW(v) : v \in 1..MaxWeight }
    \cup { PowW(e, NumLimbs) : e \in (IntBits - 3)..(IntBits - 2) }


ValidateIdle ==
    /\ body = EmptyText
    /\ pc = "off"
    /\ queryString = EmptyText
    /\ doc = NoDoc
    /\ depth = 0
    /\ aliasCount = 0
    /\ complexity = NoWord
    /\ err = NoError
    /\ ran = <<>>

InitAnalyze ==
    /\ ValidateIdle
    /\ HandlerIdle
    /\ node \in AllDocs
    /\ weight = NoWord
    /\ call = "none"
    /\ ret = [depth |-> 0, aliases |-> 0, complexity |-> NoWord, introspection |-> FALSE]

ValidateVars == <<body, pc, queryString, doc, depth, aliasCount, complexity, err, ran>>

CallDepth ==
    /\ call = "none"
    /\ call' = "calculateQueryDepth"
    /\ ret' = [ret EXCEPT !.depth = calculateQueryDepth(node, 0)]
    /\ UNCHANGED <<ValidateVars, HandlerVars, node, weight>>

CallAliases ==
    /\ call = "none"
    /\ call' = "countAliases"
    /\ ret' = [ret EXCEPT !.aliases = countAliases(node)]
    /\ UNCHANGED <<ValidateVars, HandlerVars, node, weight>>

CallComplexity ==
    /\ call = "none"
    /\ \E w \in Weights :
         /\ weight' = w
         /\ ret' = [ret EXCEPT !.complexity = calculateQueryComplexity(node, w)]
    /\ call' = "calculateQueryComplexity"
    /\ UNCHANGED <<ValidateVars, HandlerVars, node>>

CallIntrospection ==
    /\ call = "none"
    /\ call' = "hasIntrospection"
    /\ ret' = [ret EXCEPT !.introspection = hasIntrospection(node)]
    /\ UNCHANGED <<ValidateVars, HandlerVars, node, weight>>

NextAnalyze == CallDepth \/ CallAliases \/ CallComplexity \/ CallIntrospection

SpecAnalyze == InitAnalyze /\ [][NextAnalyze]_vars


\* the verdict of the four checks on a parsed document
VerdictOfDocument(d) ==
    IF hasIntrospection(d) THEN Errorf(IntrospectionFormat, <<>>)
    ELSE IF DepthExceeded(calculateQueryDepth(d, 0))
    THEN Errorf(DepthFormat, <<IntW(maxDepth), IntW(calculateQueryDepth(d, 0))>>)
    ELSE IF AliasesExceeded(countAliases(d))
    THEN Errorf(AliasFormat, <<IntW(maxAliases), IntW(countAliases(d))>>)
    ELSE IF ComplexityExceeded(calculateQueryComplexity(d, IntW(1)))
    THEN Errorf(ComplexityFormat,
                <<IntW(maxComplexity), calculateQueryComplexity(d, IntW(1))>>)
    ELSE NoError

\* the verdict of parsing a raw query text and checking its document
VerdictOfQueryText(text) ==
    IF Parse(text).err THEN ParseErrorVerdict ELSE VerdictOfDocument(Parse(text).doc)

(***************************************************************************)
(* ValidateGraphQLQuery(queryString, schema) as one call, for its callers. *)
(***************************************************************************)
NilSchema == [isNil |-> TRUE, name |-> ""]
Schema(name) == [isNil |-> FALSE, name |-> name]
Schemas == {NilSchema, Schema("hello"), Schema("custom")}

ValidateGraphQLQuery(text, schema) ==
    IF text = EmptyText THEN EmptyQueryVerdict
    ELSE VerdictOfQueryText(ExtractQueryString(text))

(***************************************************************************)
(* handler.go: NewHTTP.  The GraphQL handler h it wraps (graphql-go's      *)
(* handler package) is outside the repository: a call of h.ServeHTTP is    *)
(* recorded and writes any one of the responses below to its writer.       *)
(***************************************************************************)
\* graphCtx = &GraphContext{DEBUG: true, Playground: true}
DefaultContext == [NoContext EXCEPT !.isNil = FALSE, !.DEBUG = TRUE, !.Playground = TRUE]

\* the GraphContext the closure of NewHTTP reads
NewHTTP(g) == IF g.isNil THEN DefaultContext ELSE g

\* the schema NewHTTP hands to ValidateGraphQLQuery
buildSchemaFromContext(g) == Schema("hello")

\* a form-encoded body with the field query (absent when q is empty)
FormText(q) == [Kind |-> "form", Query |-> q]
\* any other text, given by its content
PlainText(str) == [Kind |-> "plain", Str |-> str]

FormContentType == "application/x-www-form-urlencoded"

\* r.ParseForm(); r.PostForm.Get("query")
PostFormQuery(text) == IF text.Kind = "form" THEN text.Query ELSE EmptyText

\* a reader with the bytes b still to be read
Reader(b) == [unread |-> b]

\* io.ReadAll(reader): the bytes read, and the reader left at its end
ReadAll(reader) == [bodyBytes |-> reader.unread, reader |-> NoReader]

\* a fault: the body left as io.ReadAll left it
BodyLeftAtEnd(bodyBytes) == NoReader
\* r.Body = io.NopCloser(bytes.NewBuffer(bodyBytes))
RestoredBody(bodyBytes) == Reader(bodyBytes)

\* r.Body after the extraction of the query: a POST is read to its end, as a form
\* put back and read again by r.ParseForm, and put back at the end
BodyAfterExtraction(req, reader) ==
    IF req.Method = "POST"
    THEN LET read == ReadAll(reader)
             parsed == IF req.ContentType = FormContentType
                       THEN ReadAll(RestoredBody(read.bodyBytes)).reader
                       ELSE read.reader
         IN  RestoredBody(read.bodyBytes)
    ELSE reader

\* the local query after the extraction
ExtractedQuery(req) ==
    IF req.Method = "POST"
    THEN IF req.ContentType = FormContentType THEN PostFormQuery(req.Body)
         ELSE LET u == UnmarshalMap(req.Body)
              IN  IF ~u.err /\ QueryMember(u.map).ok THEN QueryMember(u.map).query
                  ELSE EmptyText
    ELSE IF req.Method = "GET" THEN req.URLQuery
    ELSE EmptyText

JsonList(items) == [Type |-> "array", Items |-> items]

\* err.Error()
ErrorText(e) == [format |-> e.format, args |-> e.args]

\* the response of a rejected request
RejectionResponse(e) ==
    [written |-> TRUE, Status |-> 400, ContentType |-> "application/json",
     Body |-> JsonText(JsonObject("errors" :>
                JsonList(<<JsonObject("message" :> JsonString(ErrorText(e)))>>)))]

\* http.Error(w, "Failed to read request body", http.StatusBadRequest)
ReadErrorResponse ==
    [written |-> TRUE, Status |-> 400, ContentType |-> "text/plain; charset=utf-8",
     Body |-> PlainText("Failed to read request body")]

\* a fault: the rejection not followed by return
RejectedFallsThrough == "serve"
\* where the closure is after writing the rejection
RejectedNext == "done"

\* a fault: DEBUG honoured only while validation is off
SkipsChecksUnlessValidating(g) == g.DEBUG /\ ~g.EnableValidation
\* if graphCtx.DEBUG
SkipsChecks(g) == g.DEBUG

(***************************************************************************)
(* handler.go: sanitizeAndWrite.  An error message is a sequence of        *)
(* tokens: single white space characters, quoted names, the question mark, *)
(* the phrase Did you mean, and other pieces of text without white space   *)
(* at their ends and without quotes.                                       *)
(***************************************************************************)
DidYouMean == "Did you mean"
WhiteSpace == {" ", "\t"}
QuotedNames == {"\"nam\"", "\"name\"", "\"nick\"", "\"User\""}

RECURSIVE RemoveSuggestionsFrom(_, _)
\* regexp `Did you mean "[^"]+"\?` replaced by "" in message from token i on
RemoveSuggestionsFrom(message, i) ==
    IF i > Len(message) THEN <<>>
    ELSE IF /\ i + 3 <= Len(message)
            /\ message[i] = DidYouMean
            /\ message[i + 1] = " "
            /\ message[i + 2] \in QuotedNames
            /\ message[i + 3] = "?"
         THEN RemoveSuggestionsFrom(message, i + 4)
         ELSE <<message[i]>> \o RemoveSuggestionsFrom(message, i + 1)

RECURSIVE CollapseSpacesFrom(_, _)
\* regexp `\s+` replaced by " " in message from token i on
CollapseSpacesFrom(message, i) ==
    IF i > Len(message) THEN <<>>
    ELSE IF message[i] \notin WhiteSpace
         THEN <<message[i]>> \o CollapseSpacesFrom(message, i + 1)
         ELSE IF i > 1 /\ message[i - 1] \in WhiteSpace
         THEN CollapseSpacesFrom(message, i + 1)
         ELSE <<" ">> \o CollapseSpacesFrom(message, i + 1)

\* strings.TrimSpace
TrimSpace(message) ==
    LET kept == { i \in 1..Len(message) : message[i] \notin WhiteSpace }
    IN  IF kept = {} THEN <<>>
        ELSE SubSeq(message, CHOOSE i \in kept : \A j \in kept : i <= j,
                             CHOOSE i \in kept : \A j \in kept : j <= i)

\* the message sanitizeAndWrite stores in place of message
SanitizedMessage(message) ==
    TrimSpace(CollapseSpacesFrom(RemoveSuggestionsFrom(message, 1), 1))

\* one item of the errors array after the loop body
SanitizedItem(item) ==
    IF /\ item.Type = "object"
       /\ "message" \in DOMAIN item.Members
       /\ item.Members["message"].Type = "string"
    THEN JsonObject([item.Members EXCEPT
                        !["message"] = JsonString(SanitizedMessage(@.Str))])
    ELSE item

\* the body sanitizeAndWrite writes for the buffered body
SanitizedBody(buffered) ==
    LET u == UnmarshalMap(buffered)
    IN  IF ~u.err /\ "errors" \in DOMAIN u.map /\ u.map["errors"].Type = "array"
        THEN JsonText(JsonObject([u.map EXCEPT
                !["errors"] = JsonList([i \in 1..Len(@.Items) |-> SanitizedItem(@.Items[i])])]))
        ELSE buffered

(***************************************************************************)
(* The handler closure of NewHTTP, one action per branch.                  *)
(***************************************************************************)
\* the GraphContext arguments: nil, and every setting of the three flags
Contexts ==
    {NoContext}
    \cup { [NoContext EXCEPT !.isNil = FALSE, !.DEBUG = d, !.EnableValidation = v,
                             !.EnableSanitization = z] :
             d \in BOOLEAN, v \in BOOLEAN, z \in BOOLEAN }

\* the query texts of the requests: the empty one, one the parser rejects, an
\* allowed one, one for each rejection, and one that is a JSON envelope itself
IntrospectionQuery ==
    GraphQLText(Document(<<OperationDefinition(SelectionSet(<<SchemaLeaf>>))>>))
HandlerQueries ==
    { EmptyText, MalformedText,
      GraphQLText(Tower(0, <<PlainLeaf>>, {}, 0)),
      IntrospectionQuery,
      GraphQLText(Tower(MaxTower, <<PlainLeaf>>, {}, 0)),
      GraphQLText(Tower(0, <<PlainLeaf>>, {}, MaxAliasPad)),
      GraphQLText(Tower(BoundaryHeight + 1, <<PlainLeaf>>, {}, 0)),
      Envelope(IntrospectionQuery) }

Request(method, contentType, urlQuery, body_) ==
    [NoRequest EXCEPT !.Method = method, !.ContentType = contentType,
                      !.URLQuery = urlQuery, !.Body = body_]

Requests ==
    { Request("GET", "", q, EmptyText) : q \in HandlerQueries }
    \cup { Request("POST", ct, EmptyText, Envelope(q)) :
             ct \in {"application/json", ""}, q \in HandlerQueries }
    \cup { Request("POST", "application/json", EmptyText, JsonText(v)) :
             v \in { JsonObject(NoMembers), JsonObject("query" :> JsonNumber), JsonNull,
                     JsonArray } }
    \cup { Request("POST", ct, EmptyText, FormText(q)) :
             ct \in {FormContentType, "application/x-www-form-urlencoded; charset=UTF-8"},
             q \in HandlerQueries }
    \cup { Request("POST", ct, EmptyText, q) :
             ct \in {"application/graphql", FormContentType}, q \in HandlerQueries }
    \cup { Request("POST", "application/json", IntrospectionQuery, Envelope(q)) :
             q \in {EmptyText, GraphQLText(Tower(0, <<PlainLeaf>>, {}, 0))} }
    \cup { Request("PUT", "application/json", IntrospectionQuery, Envelope(IntrospectionQuery)),
           [Request("POST", "application/json", EmptyText, Envelope(IntrospectionQuery))
              EXCEPT !.ReadErr = TRUE] }

\* the error messages of the wrapped handler: a text, white space, a suggestion
\* of one name, of two, of three, of a type, or something close to one, a rest
MessageHeads == { <<>>, <<"Cannot query field", " ", "\"nam\"", ".">> }
MessageGaps == { <<" ">>, <<" ", "\t">> }
Suggestions ==
    { <<>>,
      <<DidYouMean, " ", "\"name\"", "?">>,
      <<DidYouMean, " ", "\"name\"", " ", "or", " ", "\"nick\"", "?">>,
      <<DidYouMean, " ", "\"name\"", ",", " ", "\"nick\"", ",", " ", "or", " ",
        "\"User\"", "?">>,
      <<DidYouMean, " ", "to use an inline fragment on", " ", "\"User\"", "?">>,
      <<DidYouMean, "\t", "\"name\"", "?">>,
      <<DidYouMean, " ", "\"\"", "?">>,
      <<DidYouMean, " ", "\"name\"", "?", " ", DidYouMean, " ", "\"nick\"", "?">> }
MessageRests == { <<>>, <<" ", "(line 1)">> }
Messages ==
    { h \o g \o m \o t :
        h \in MessageHeads, g \in MessageGaps, m \in Suggestions, t \in MessageRests }

ErrorItem(message) == JsonObject("message" :> JsonString(message))

ErrorLists ==
    { <<ErrorItem(m)>> : m \in Messages }
    \cup { <<ErrorItem(<<"a", " ", DidYouMean, " ", "\"name\"", "?">>),
             JsonObject(("message" :> JsonString(<<DidYouMean, " ", "\"nick\"", "?">>))
                        @@ ("path" :> JsonList(<<>>)))>>,
           <<JsonString(<<DidYouMean, " ", "\"name\"", "?">>)>>,
           <<JsonObject("message" :> JsonNumber)>>,
           <<JsonObject(NoMembers)>>,
           <<>> }

Response(status, contentType, body_) ==
    [written |-> TRUE, Status |-> status, ContentType |-> contentType, Body |-> body_]

\* what h.ServeHTTP may write; status 0 stands for WriteHeader never called
DownstreamResponses ==
    { Response(200, "application/json",
               JsonText(JsonObject(("data" :> JsonNull) @@ ("errors" :> JsonList(l))))) :
        l \in ErrorLists }
    \cup { Response(0, "application/json",
                    JsonText(JsonObject("errors" :> JsonList(<<ErrorItem(m)>>)))) :
             m \in { <<DidYouMean, " ", "\"name\"", "?">>, <<"a">> } }
    \cup { Response(200, "application/json", JsonText(v)) :
             v \in { JsonObject("data" :> JsonObject(NoMembers)),
                     JsonObject("errors" :> JsonString(<<DidYouMean, " ", "\"name\"", "?">>)),
                     JsonNull } }
    \cup { Response(200, "text/html; charset=utf-8", PlainText("playground")),
           Response(400, "text/plain", EmptyText) }

InitHTTP ==
    /\ ValidateIdle
    /\ AnalyzeIdle
    /\ arg \in Contexts
    /\ graphCtx = NewHTTP(arg)
    /\ r \in Requests
    /\ hpc = "handler"
    /\ query = EmptyText
    /\ validated = <<>>
    /\ served = <<>>
    /\ down = NoResponse
    /\ wrapper = NoWrapper
    /\ resp = NoResponse
    /\ rootValue = NoRootValue
    /\ rBody = Reader(r.Body)
    /\ underlying = <<>>
    /\ wcalls = <<>>
    /\ invoked = <<>>
    /\ calls = <<>>

\* the calls of a handler on its http.ResponseWriter
WriteHeaderCall(statusCode) == [method |-> "WriteHeader", statusCode |-> statusCode]
WriteCall(b) == [method |-> "Write", b |-> b]

\* the calls by which h.ServeHTTP writes out in one piece
CallsOf(out) ==
    (IF out.Status = 0 THEN <<>> ELSE <<WriteHeaderCall(out.Status)>>)
    \o <<WriteCall(out.Body)>>

\* the calls by which the closure writes a response of its own
ClosureCalls(out) == <<WriteHeaderCall(out.Status), WriteCall(out.Body)>>

\* what the client's ResponseWriter holds after out was written to it
Written(out) == [out EXCEPT !.Status = IF @ = 0 THEN 200 ELSE @]

\* if graphCtx.DEBUG { h.ServeHTTP(w, r); return }
ServeDebug ==
    /\ hpc = "handler"
    /\ SkipsChecks(graphCtx)
    /\ \E out \in DownstreamResponses :
         /\ down' = out
         /\ resp' = Written(out)
    /\ served' = Append(served, "w")
    /\ hpc' = "done"
    /\ underlying' = underlying \o CallsOf(down')
    /\ UNCHANGED <<ValidateVars, AnalyzeVars, arg, graphCtx, r, query, validated, wrapper,
                   rootValue, calls, invoked, wcalls, rBody>>

\* io.ReadAll(r.Body) fails
ReadBodyFail ==
    /\ hpc = "handler"
    /\ ~SkipsChecks(graphCtx)
    /\ r.Method = "POST"
    /\ r.ReadErr
    /\ resp' = ReadErrorResponse
    /\ hpc' = "done"
    /\ underlying' = underlying \o ClosureCalls(resp')
    /\ rBody' = ReadAll(rBody).reader
    /\ UNCHANGED <<ValidateVars, AnalyzeVars, arg, graphCtx, r, query, validated, served,
                   down, wrapper, rootValue, calls, invoked, wcalls>>

\* the extraction of query from the request
ExtractRequestQuery ==
    /\ hpc = "handler"
    /\ ~SkipsChecks(graphCtx)
    /\ ~(r.Method = "POST" /\ r.ReadErr)
    /\ query' = ExtractedQuery(r)
    /\ hpc' = "validate"
    /\ rBody' = BodyAfterExtraction(r, rBody)
    /\ UNCHANGED <<ValidateVars, AnalyzeVars, arg, graphCtx, r, validated, served, down,
                   wrapper, resp, rootValue, calls, invoked, wcalls, underlying>>

\* ValidateGraphQLQuery returns an error: the rejection is written
RejectQuery ==
    /\ hpc = "validate"
    /\ graphCtx.EnableValidation
    /\ query # EmptyText
    /\ ~ValidateGraphQLQuery(query, buildSchemaFromContext(graphCtx)).isNil
    /\ validated' = Append(validated, query)
    /\ resp' = RejectionResponse(ValidateGraphQLQuery(query, buildSchemaFromContext(graphCtx)))
    /\ hpc' = RejectedNext
    /\ underlying' = underlying \o ClosureCalls(resp')
    /\ UNCHANGED <<ValidateVars, AnalyzeVars, arg, graphCtx, r, query, served, down, wrapper,
                   rootValue, calls, invoked, wcalls, rBody>>

\* ValidateGraphQLQuery returns nil
PassQuery ==
    /\ hpc = "validate"
    /\ graphCtx.EnableValidation
    /\ query # EmptyText
    /\ ValidateGraphQLQuery(query, buildSchemaFromContext(graphCtx)).isNil
    /\ validated' = Append(validated, query)
    /\ hpc' = "serve"
    /\ UNCHANGED <<ValidateVars, AnalyzeVars, arg, graphCtx, r, query, served, down, wrapper,
                   resp, rootValue, calls, invoked, wcalls, underlying, rBody>>

\* validation is off or query is empty
SkipValidation ==
    /\ hpc = "validate"
    /\ ~(graphCtx.EnableValidation /\ query # EmptyText)
    /\ hpc' = "serve"
    /\ UNCHANGED <<ValidateVars, AnalyzeVars, arg, graphCtx, r, query, validated, served,
                   down, wrapper, resp, rootValue, calls, invoked, wcalls, underlying,
                   rBody>>

\* wrapper := newResponseWriterWrapper(w); h.ServeHTTP(wrapper, r)
ServeWrapped ==
    /\ hpc = "serve"
    /\ graphCtx.EnableSanitization
    /\ \E out \in DownstreamResponses :
         /\ down' = out
         /\ wrapper' = [isNil |-> FALSE, body |-> out.Body,
                        statusCode |-> IF out.Status = 0 THEN 200 ELSE out.Status]
    /\ served' = Append(served, "wrapper")
    /\ hpc' = "sanitize"
    /\ wcalls' = CallsOf(down')
    /\ UNCHANGED <<ValidateVars, AnalyzeVars, arg, graphCtx, r, query, validated, resp,
                   rootValue, calls, invoked, underlying, rBody>>

\* wrapper.sanitizeAndWrite()
SanitizeAndWrite ==
    /\ hpc = "sanitize"
    /\ resp' = Response(wrapper.statusCode, down.ContentType, SanitizedBody(wrapper.body))
    /\ hpc' = "done"
    /\ underlying' = underlying \o <<WriteHeaderCall(wrapper.statusCode),
                                      WriteCall(SanitizedBody(wrapper.body))>>
    /\ UNCHANGED <<ValidateVars, AnalyzeVars, arg, graphCtx, r, query, validated, served,
                   down, wrapper, rootValue, calls, invoked, wcalls, rBody>>

\* h.ServeHTTP(w, r)
ServeDirect ==
    /\ hpc = "serve"
    /\ ~graphCtx.EnableSanitization
    /\ \E out \in DownstreamResponses :
         /\ down' = out
         /\ resp' = Written(out)
    /\ served' = Append(served, "w")
    /\ hpc' = "done"
    /\ underlying' = underlying \o CallsOf(down')
    /\ UNCHANGED <<ValidateVars, AnalyzeVars, arg, graphCtx, r, query, validated, wrapper,
                   rootValue, calls, invoked, wcalls, rBody>>

NextHTTP ==
    \/ ServeDebug
    \/ ReadBodyFail
    \/ ExtractRequestQuery
    \/ RejectQuery
    \/ PassQuery
    \/ SkipValidation
    \/ ServeWrapped
    \/ SanitizeAndWrite
    \/ ServeDirect

SpecHTTP == InitHTTP /\ [][NextHTTP]_vars

(***************************************************************************)
(* handler.go: responseWriterWrapper, call by call.  h.ServeHTTP makes up  *)
(* to MaxWrites calls of WriteHeader and Write on the wrapper and returns; *)
(* a body may be written whole or as its first and its second part.        *)
(***************************************************************************)
MaxWrites == 3      \* calls of h.ServeHTTP on its writer

\* newResponseWriterWrapper(w)
newResponseWriterWrapper == [isNil |-> FALSE, body |-> EmptyText, statusCode |-> 200]

\* a fault: the first status code kept
WriteHeaderKeepsFirst(w, statusCode) ==
    IF w.statusCode = 200 THEN [w EXCEPT !.statusCode = statusCode] ELSE w
\* func (w *responseWriterWrapper) WriteHeader(statusCode int)
WrapperWriteHeaderStored(w, statusCode) == [w EXCEPT !.statusCode = statusCode]

\* the first and the second part of the bytes of text
FirstPart(text) == [Kind |-> "part", Of |-> text, Part |-> 1]
SecondPart(text) == [Kind |-> "part", Of |-> text, Part |-> 2]

\* the pieces a buffer content is made of
Pieces(text) ==
    IF text.Kind = "empty" THEN <<>>
    ELSE IF text.Kind = "bytes" THEN text.Pieces
    ELSE <<text>>

RECURSIVE JoinedAfter(_, _)
\* the first n of the pieces, the two parts of a text that follow each other in
\* their order put together as the text
JoinedAfter(pieces, n) ==
    IF n = 0 THEN <<>>
    ELSE LET j == JoinedAfter(pieces, n - 1)
             p == pieces[n]
         IN  IF /\ p.Kind = "part"
                /\ p.Part = 2
                /\ j # <<>>
                /\ j[Len(j)] = FirstPart(p.Of)
             THEN SubSeq(j, 1, Len(j) - 1) \o <<p.Of>>
             ELSE Append(j, p)

\* the text a sequence of pieces makes: more than one piece is no JSON text
TextOf(pieces) ==
    LET j == JoinedAfter(pieces, Len(pieces))
    IN  IF j = <<>> THEN EmptyText
        ELSE IF Len(j) = 1 THEN j[1]
        ELSE [Kind |-> "bytes", Pieces |-> j]

\* bytes.Buffer.Write: b after the content buf
BufferWrite(buf, b) == TextOf(Pieces(buf) \o Pieces(b))

\* func (w *responseWriterWrapper) Write(b []byte)
WrapperWriteBuffered(w, b) == [w EXCEPT !.body = BufferWrite(@, b)]

StatusCodes == {200, 400, 500}
ErrorsBody ==
    JsonText(JsonObject(("data" :> JsonNull) @@ ("errors" :> JsonList(
        <<ErrorItem(<<"Cannot query field", " ", "\"nam\"", ".", " ",
                      DidYouMean, " ", "\"name\"", "?">>)>>))))
DataBody == JsonText(JsonObject("data" :> JsonObject(NoMembers)))
WriterChunks ==
    { ErrorsBody, FirstPart(ErrorsBody), SecondPart(ErrorsBody), DataBody,
      PlainText("playground"), EmptyText }

InitWrapper ==
    /\ ValidateIdle
    /\ AnalyzeIdle
    /\ arg \in { g \in Contexts : ~g.isNil /\ ~g.DEBUG /\ g.EnableSanitization }
    /\ graphCtx = NewHTTP(arg)
    /\ r = Request("GET", "", GraphQLText(Tower(0, <<PlainLeaf>>, {}, 0)), EmptyText)
    /\ hpc = "serve"
    /\ query = ExtractedQuery(r)
    /\ validated = IF graphCtx.EnableValidation THEN <<query>> ELSE <<>>
    /\ served = <<>>
    /\ down = NoResponse
    /\ wrapper = NoWrapper
    /\ resp = NoResponse
    /\ rootValue = NoRootValue
    /\ rBody = Reader(r.Body)
    /\ invoked = <<>>
    /\ wcalls = <<>>
    /\ underlying = <<>>
    /\ calls = <<>>

\* wrapper := newResponseWriterWrapper(w); h.ServeHTTP(wrapper, r) is entered
NewWrapper ==
    /\ hpc = "serve"
    /\ graphCtx.EnableSanitization
    /\ wrapper' = newResponseWriterWrapper
    /\ served' = Append(served, "wrapper")
    /\ hpc' = "downstream"
    /\ UNCHANGED <<ValidateVars, AnalyzeVars, arg, graphCtx, r, query, validated, down,
                   resp, rootValue, calls, invoked, wcalls, underlying, rBody>>

\* h.ServeHTTP calls wrapper.WriteHeader(statusCode)
WrapperWriteHeader ==
    /\ hpc = "downstream"
    /\ Len(wcalls) < MaxWrites
    /\ \E statusCode \in StatusCodes :
         /\ wrapper' = WrapperWriteHeaderStored(wrapper, statusCode)
         /\ wcalls' = Append(wcalls, WriteHeaderCall(statusCode))
    /\ UNCHANGED <<ValidateVars, AnalyzeVars, arg, graphCtx, r, hpc, query, validated,
                   served, down, resp, rootValue, calls, invoked, underlying, rBody>>

\* h.ServeHTTP calls wrapper.Write(b)
WrapperWrite ==
    /\ hpc = "downstream"
    /\ Len(wcalls) < MaxWrites
    /\ \E b \in WriterChunks :
         /\ wrapper' = WrapperWriteBuffered(wrapper, b)
         /\ wcalls' = Append(wcalls, WriteCall(b))
    /\ UNCHANGED <<ValidateVars, AnalyzeVars, arg, graphCtx, r, hpc, query, validated,
                   served, down, resp, rootValue, calls, invoked, underlying, rBody>>

\* h.ServeHTTP(wrapper, r) returns
ServeHTTPReturns ==
    /\ hpc = "downstream"
    /\ down' = [written |-> wcalls # <<>>,
                Status |-> IF \E i \in DOMAIN wcalls : wcalls[i].method = "WriteHeader"
                           THEN wrapper.statusCode ELSE 0,
                ContentType |-> "application/json",
                Body |-> wrapper.body]
    /\ hpc' = "sanitize"
    /\ UNCHANGED <<ValidateVars, AnalyzeVars, arg, graphCtx, r, query, validated, served,
                   wrapper, resp, rootValue, calls, invoked, wcalls, underlying, rBody>>

NextWrapper ==
    \/ NewWrapper
    \/ WrapperWriteHeader
    \/ WrapperWrite
    \/ ServeHTTPReturns
    \/ SanitizeAndWrite

SpecWrapper == InitWrapper /\ [][NextWrapper]_vars

(***************************************************************************)
(* handler.go: the RootObjectFn closure New hands to the wrapped handler,  *)
(* which calls it once per request for the root value of the resolvers.    *)
(* A function of the GraphContext is given by what it returns; a header    *)
(* value and a token are sequences of tokens as the messages above, the    *)
(* first token of an Authorization header being its first seven characters.*)
(***************************************************************************)
NoEntries == <<>>
Fn(returns) == [isNil |-> FALSE, returns |-> returns]

\* strings.EqualFold(auth[:len(bearerPrefix)], bearerPrefix)
EqualFoldBearer(prefix) == prefix \in {"Bearer ", "bearer ", "BEARER "}

ExtractBearerToken(auth) ==
    IF auth = <<>> THEN <<>>
    ELSE IF Len(auth) > 1 /\ EqualFoldBearer(auth[1]) THEN TrimSpace(Tail(auth))
    ELSE <<>>

\* token := tokenExtractor(r)
ExtractedToken(g, req) ==
    IF g.TokenExtractorFn.isNil THEN ExtractBearerToken(req.Authorization)
    ELSE g.TokenExtractorFn.returns

\* the map the closure returns
RootObject(g, req) ==
    LET token == ExtractedToken(g, req)
    IN  IF token = <<>> THEN NoEntries
        ELSE IF ~g.UserDetailsFn.isNil /\ ~g.UserDetailsFn.returns.err
        THEN ("token" :> token) @@ ("details" :> g.UserDetailsFn.returns.details)
        ELSE "token" :> token

RootObjectFns ==
    { NoFn, Fn(NoEntries), Fn("tenant" :> "acme"),
      Fn(("tenant" :> "acme") @@ ("token" :> <<"other">>)) }
TokenExtractorFns == { NoFn, Fn(<<>>), Fn(<<"cookie-token">>) }
UserDetailsFns ==
    { NoFn, Fn([err |-> FALSE, details |-> "user"]), Fn([err |-> TRUE, details |-> "nil"]) }

RootContexts ==
    { [NoContext EXCEPT !.isNil = FALSE, !.RootObjectFn = f, !.TokenExtractorFn = t,
                        !.UserDetailsFn = u] :
        f \in RootObjectFns, t \in TokenExtractorFns, u \in UserDetailsFns }

Authorizations ==
    { <<>>, <<"Bearer ">>, <<"Bearer ", "tok">>, <<"bearer ", " ", "tok", " ">>,
      <<"BEARER ", " ">>, <<"Basic a", "bc">>, <<"Bearer">> }

InitRoot ==
    /\ ValidateIdle
    /\ AnalyzeIdle
    /\ arg \in RootContexts
    /\ graphCtx = arg
    /\ r \in { [Request("POST", "application/json", EmptyText, Envelope(EmptyText))
                  EXCEPT !.Authorization = a] : a \in Authorizations }
    /\ hpc = "root"
    /\ query = EmptyText
    /\ validated = <<>>
    /\ served = <<>>
    /\ down = NoResponse
    /\ wrapper = NoWrapper
    /\ resp = NoResponse
    /\ rootValue = NoRootValue
    /\ rBody = Reader(r.Body)
    /\ underlying = <<>>
    /\ wcalls = <<>>
    /\ invoked = <<>>
    /\ calls = <<>>

\* a fault: the user details fetched whatever the token
FetchesDetailsForAnyToken(g, token) == ~g.UserDetailsFn.isNil
\* if token != "" { ... if graphCtx.UserDetailsFn != nil {
FetchesDetails(g, token) == token # <<>> /\ ~g.UserDetailsFn.isNil

\* the name under which the token extractor is recorded
TokenExtractorName(g) ==
    IF g.TokenExtractorFn.isNil THEN "ExtractBearerToken" ELSE "TokenExtractorFn"

\* if graphCtx.RootObjectFn != nil { graphCtx.RootObjectFn(ctx, r) }
\* rootValue := make(map[string]interface{})
CallRootObjectFn ==
    /\ hpc = "root"
    /\ invoked' = IF graphCtx.RootObjectFn.isNil THEN invoked
                  ELSE Append(invoked, "RootObjectFn")
    /\ rootValue' = [isNil |-> FALSE, entries |-> NoEntries]
    /\ hpc' = "token"
    /\ UNCHANGED <<ValidateVars, AnalyzeVars, arg, graphCtx, r, query, validated, served,
                   down, wrapper, resp, calls, wcalls, underlying, rBody>>

\* token := tokenExtractor(r); if token != "" { rootValue["token"] = token
ExtractToken ==
    /\ hpc = "token"
    /\ invoked' = Append(invoked, TokenExtractorName(graphCtx))
    /\ LET token == ExtractedToken(graphCtx, r)
       IN  /\ rootValue' = IF token = <<>> THEN rootValue
                           ELSE [rootValue EXCEPT !.entries = "token" :> token]
           /\ hpc' = IF FetchesDetails(graphCtx, token) THEN "details" ELSE "return"
    /\ UNCHANGED <<ValidateVars, AnalyzeVars, arg, graphCtx, r, query, validated, served,
                   down, wrapper, resp, calls, wcalls, underlying, rBody>>

\* details, err := graphCtx.UserDetailsFn(token)
\* if err == nil { rootValue["details"] = details }
CallUserDetailsFn ==
    /\ hpc = "details"
    /\ invoked' = Append(invoked, "UserDetailsFn")
    /\ rootValue' = IF graphCtx.UserDetailsFn.returns.err THEN rootValue
                    ELSE [rootValue EXCEPT !.entries =
                              @ @@ ("details" :> graphCtx.UserDetailsFn.returns.details)]
    /\ hpc' = "return"
    /\ UNCHANGED <<ValidateVars, AnalyzeVars, arg, graphCtx, r, query, validated, served,
                   down, wrapper, resp, calls, wcalls, underlying, rBody>>

\* return rootValue
ReturnRootValue ==
    /\ hpc = "return"
    /\ hpc' = "returned"
    /\ UNCHANGED <<ValidateVars, AnalyzeVars, arg, graphCtx, r, query, validated, served,
                   down, wrapper, resp, rootValue, calls, invoked, wcalls, underlying,
                   rBody>>

\* the closure, from the call of graphCtx.RootObjectFn to return rootValue
RootObjectClosure ==
    \/ CallRootObjectFn
    \/ ExtractToken
    \/ CallUserDetailsFn
    \/ ReturnRootValue

NextRoot == RootObjectClosure

SpecRoot == InitRoot /\ [][NextRoot]_vars

(***************************************************************************)
(* Concurrent calls of ValidateGraphQLQuery.  The function assigns only    *)
(* its locals, so a call is its arguments, its position and its locals;    *)
(* a step runs one statement of one call.                                  *)
(***************************************************************************)
MaxCalls == 2       \* calls running at the same time

CallBodies ==
    { EmptyText, MalformedText, IntrospectionQuery,
      GraphQLText(Tower(0, <<PlainLeaf>>, {}, MaxAliasPad)),
      Envelope(GraphQLText(Tower(BoundaryHeight + 1, <<PlainLeaf>>, {}, 0))) }
CallSchemas == {NilSchema, Schema("hello")}

\* the locals at the start of ValidateGraphQLQuery(b, s)
NewCall(b, s) ==
    [body |-> b, schema |-> s, pc |-> "start", queryString |-> b, doc |-> NoDoc,
     depth |-> 0, aliasCount |-> 0, complexity |-> NoWord, err |-> NoError]

\* a fault: the parsed document kept in one place for all calls
SharedDoc(c, i) == c[1].doc
\* the document the analyzers of call i are handed
AnalyzedDoc(c, i) == c[i].doc

\* a fault: no document to check without a schema
ParsedDocNeedsSchema(l) ==
    IF l.schema.isNil THEN NoDoc ELSE Parse(l.queryString).doc
\* doc of doc, err := parser.Parse(...)
CallParsedDoc(l) == Parse(l.queryString).doc

\* the locals of call i after its next statement
ValidateStep(c, i) ==
    LET l == c[i]
        d == AnalyzedDoc(c, i)
    IN  CASE l.pc = "start" /\ l.queryString = EmptyText ->
                [l EXCEPT !.pc = "done", !.err = EmptyQueryVerdict]
          [] l.pc = "start" /\ l.queryString # EmptyText ->
                [l EXCEPT !.pc = "parse", !.queryString = ExtractQueryString(@)]
          [] l.pc = "parse" /\ Parse(l.queryString).err ->
                [l EXCEPT !.pc = "done", !.err = ParseErrorVerdict]
          [] l.pc = "parse" /\ ~Parse(l.queryString).err ->
                [l EXCEPT !.pc = NextCheck("parse"), !.doc = CallParsedDoc(l)]
          [] l.pc = "introspection" ->
                IF hasIntrospection(d)
                THEN [l EXCEPT !.pc = "done", !.err = Errorf(IntrospectionFormat, <<>>)]
                ELSE [l EXCEPT !.pc = NextCheck("introspection")]
          [] l.pc = "depth" ->
                IF DepthExceeded(calculateQueryDepth(d, 0))
                THEN [l EXCEPT !.pc = "done", !.depth = calculateQueryDepth(d, 0),
                               !.err = Errorf(DepthFormat,
                                   <<IntW(maxDepth), IntW(calculateQueryDepth(d, 0))>>)]
                ELSE [l EXCEPT !.pc = NextCheck("depth"),
                               !.depth = calculateQueryDepth(d, 0)]
          [] l.pc = "aliases" ->
                IF AliasesExceeded(countAliases(d))
                THEN [l EXCEPT !.pc = "done", !.aliasCount = countAliases(d),
                               !.err = Errorf(AliasFormat,
                                   <<IntW(maxAliases), IntW(countAliases(d))>>)]
                ELSE [l EXCEPT !.pc = NextCheck("aliases"), !.aliasCount = countAliases(d)]
          [] l.pc = "complexity" ->
                IF ComplexityExceeded(calculateQueryComplexity(d, IntW(1)))
                THEN [l EXCEPT !.pc = "done",
                               !.complexity = calculateQueryComplexity(d, IntW(1)),
                               !.err = Errorf(ComplexityFormat,
                                   <<IntW(maxComplexity),
                                     calculateQueryComplexity(d, IntW(1))>>)]
                ELSE [l EXCEPT !.pc = "done",
                               !.complexity = calculateQueryComplexity(d, IntW(1))]

InitCalls ==
    /\ ValidateIdle
    /\ AnalyzeIdle
    /\ HTTPIdle
    /\ calls \in UNION { [1..n -> { NewCall(b, s) : b \in CallBodies, s \in CallSchemas }] :
                         n \in 1..MaxCalls }

\* one call runs its next statement
StepCall ==
    /\ \E i \in DOMAIN calls :
         /\ calls[i].pc # "done"
         /\ calls' = [calls EXCEPT ![i] = ValidateStep(calls, i)]
    /\ UNCHANGED <<ValidateVars, AnalyzeVars, arg, graphCtx, r, hpc, query, validated,
                   served, down, wrapper, resp, rootValue, invoked, wcalls, underlying,
                   rBody>>

NextCalls == StepCall

SpecCalls == InitCalls /\ [][NextCalls]_vars

(***************************************************************************)
(* The nodes of a document, for stating what the analyzers compute: every  *)
(* selection under an operation or fragment definition, with its path and  *)
(* the number k of Field nodes that are its proper ancestors.              *)
(***************************************************************************)
RECURSIVE NodesOf(_, _, _)
NodesOf(sels, path, k) ==
    UNION { LET sel == sels[i]
                here == [Path |-> Append(path, i), Kind |-> sel.Kind, Name |-> sel.Name,
                         Alias |-> sel.Alias, k |-> k]
            IN  {here} \cup
                (IF sel.SelectionSet.isNil THEN {}
                 ELSE NodesOf(sel.SelectionSet.Selections, Append(path, i),
                              IF sel.Kind = "Field" THEN k + 1 ELSE k)) :
            i \in 1..Len(sels) }

AllNodes(d) ==
    UNION { LET def == d.Definitions[i]
            IN  IF def.Kind \in DefKinds /\ ~def.SelectionSet.isNil
                THEN NodesOf(def.SelectionSet.Selections, <<i>>, 0)
                ELSE {} :
            i \in 1..Len(d.Definitions) }

FieldNodes(d) == { n \in AllNodes(d) : n.Kind = "Field" }

MaxOrZero(S) == IF S = {} THEN 0 ELSE CHOOSE x \in S : \A y \in S : y <= x

\* words wide enough to hold the exact sums of the model
WideLimbs == NumLimbs + 2
Widen(x) == x \o NatW(0, WideLimbs - Len(x))

RECURSIVE ShiftW(_, _)
\* x * 2^k
ShiftW(x, k) == IF k = 0 THEN x ELSE ShiftW(AddW(x, x), k - 1)

RECURSIVE TimesW(_, _)
\* x * c
TimesW(x, c) == IF c = 0 THEN NatW(0, Len(x)) ELSE AddW(x, TimesW(x, c - 1))

\* the number of Field and FragmentSpread nodes with k Field ancestors
CostedAt(d, k) ==
    Cardinality({ n \in AllNodes(d) : n.Kind \in {"Field", "FragmentSpread"} /\ n.k = k })

RECURSIVE SumLevels(_, _, _)
\* the sum of w * 2^k over the Field and FragmentSpread nodes at levels k and below
SumLevels(d, w, k) ==
    IF \A n \in AllNodes(d) : n.k < k THEN NatW(0, Len(w))
    ELSE AddW(TimesW(ShiftW(w, k), CostedAt(d, k)), SumLevels(d, w, k + 1))

\* the exact weighted sum, as a wide word
WeightedSum(d, w) == SumLevels(d, Widen(w), 0)

(***************************************************************************)
(* ValidateGraphQLQuery: the claims.                                       *)
(***************************************************************************)
Parsed == body # EmptyText /\ ~Parse(ExtractQueryString(body)).err
ParsedDoc == Parse(ExtractQueryString(body)).doc

C2_FirstFailingCheckWins ==
    (pc = "done" /\ Parsed) =>
        LET d == ParsedDoc
            intro == hasIntrospection(d)
            deep == calculateQueryDepth(d, 0) > 10
            aliased == countAliases(d) > 4
            costly == GtW(calculateQueryComplexity(d, IntW(1)), 200)
        IN  /\ intro =>
                /\ err.format = IntrospectionFormat
                /\ ran = <<"hasIntrospection">>
            /\ (~intro /\ deep) =>
                /\ err.format = DepthFormat
                /\ ran = <<"hasIntrospection", "calculateQueryDepth">>
            /\ (~intro /\ ~deep /\ aliased) =>
                /\ err.format = AliasFormat
                /\ ran = <<"hasIntrospection", "calculateQueryDepth", "countAliases">>
            /\ (~intro /\ ~deep /\ ~aliased) =>
                /\ costly => err.format = ComplexityFormat
                /\ ran = <<"hasIntrospection", "calculateQueryDepth", "countAliases",
                           "calculateQueryComplexity">>

\* a document over the depth and the alias limit has been rejected for its depth
C2_Witness ==
    /\ pc = "done" /\ Parsed
    /\ err.format = DepthFormat
    /\ countAliases(doc) > 4
    /\ ~hasIntrospection(doc)

ScenarioBText == GraphQLText(ScenarioB)

\* C3 as claimed: the query { a { b { c { d { e { f } } } } } } has depth 11 and is
\* rejected with the depth error, limit 10, actual 11
C3_ScenarioBRejectedDepth11 ==
    (pc = "done" /\ body = ScenarioBText) =>
        /\ depth = 11
        /\ err = Errorf(DepthFormat, <<IntW(10), IntW(11)>>)

\* C3 amended: for the query { a { b { c { d { e { f } } } } } } the depth analyzer
\* returns 6, which does not exceed 10, and the query is accepted (no aliases,
\* complexity 63)
C3_ScenarioBAcceptedDepth6 ==
    (pc = "done" /\ body = ScenarioBText) =>
        /\ depth = 6
        /\ aliasCount = 0
        /\ complexity = IntW(63)
        /\ err.isNil

C3_Witness == pc = "done" /\ body = ScenarioBText

\* C9: the empty body and every body whose extracted query text fails to parse is
\* allowed, and no analyzer is run
C9_EmptyOrUnparsedAllowed ==
    (pc = "done" /\ ~Parsed) => (err.isNil /\ ran = <<>>)

\* a text the parser rejects has been validated
C9_Witness == pc = "done" /\ body = MalformedText

IsEnvelope(text) ==
    /\ text.Kind = "json"
    /\ text.Json.Type = "object"
    /\ "query" \in DOMAIN text.Json.Members
    /\ text.Json.Members["query"].Type = "string"

\* C10: a JSON object body with a string query Q is unwrapped exactly one level,
\* Q is what the parser gets and the verdict is that of Q as raw query text;
\* every other body is used whole as the query text
C10_EnvelopeUnwrappedOnce ==
    pc \in {"parse", "introspection", "depth", "aliases", "complexity", "done"} =>
        IF IsEnvelope(body)
        THEN /\ queryString = body.Json.Members["query"].Str
             /\ pc = "done" => err = VerdictOfQueryText(body.Json.Members["query"].Str)
        ELSE /\ queryString = body
             /\ pc = "done" /\ body # EmptyText => err = VerdictOfQueryText(body)

\* a query sent in a JSON envelope has been rejected
C10_Witness == pc = "done" /\ IsEnvelope(body) /\ ~err.isNil

(***************************************************************************)
(* The analyzers: the claims.                                              *)
(***************************************************************************)
\* C4: calculateQueryDepth(doc, 0) is the largest number of Field nodes on a path
\* from a definition to a field (inline fragments not counted), 0 without fields
C4_DepthIsLongestFieldPath ==
    call = "calculateQueryDepth" =>
        ret.depth = MaxOrZero({ n.k + 1 : n \in FieldNodes(node) })

\* the depth of a document with a field below an inline fragment has been computed
C4_Witness ==
    /\ call = "calculateQueryDepth"
    /\ ret.depth >= 2
    /\ \E n \in AllNodes(node), m \in FieldNodes(node) :
         /\ n.Kind = "InlineFragment"
         /\ Len(m.Path) > Len(n.Path)
         /\ SubSeq(m.Path, 1, Len(n.Path)) = n.Path

ComplexityIsWeightedSumModWidth ==
    call = "calculateQueryComplexity" =>
        ret.complexity = SubSeq(WeightedSum(node, weight), 1, NumLimbs)

\* C6: countAliases(doc) is the number of Field nodes with a non-empty alias
C6_AliasCountIsAliasedFields ==
    call = "countAliases" =>
        ret.aliases = Cardinality({ n \in FieldNodes(node) :
                                      ~n.Alias.isNil /\ n.Alias.Value # "" })

\* aliases in two definitions, one of them below an inline fragment, were counted
C6_Witness ==
    /\ call = "countAliases"
    /\ ret.aliases >= 2
    /\ Len(node.Definitions) = 2
    /\ \E n \in AllNodes(node) : n.Kind = "InlineFragment"

\* C7: hasIntrospection(doc) holds exactly when some Field node is named __schema
\* or __type
C7_IntrospectionIffReservedField ==
    call = "hasIntrospection" =>
        ret.introspection =
            (\E n \in FieldNodes(node) :
                ~n.Name.isNil /\ n.Name.Value \in {"__schema", "__type"})

\* a document whose only reserved-looking name is an alias or a longer name was
\* found free of introspection
C7_Witness ==
    /\ call = "hasIntrospection"
    /\ ~ret.introspection
    /\ \E n \in FieldNodes(node) :
         \/ ~n.Alias.isNil /\ n.Alias.Value = "__schema"
         \/ ~n.Name.isNil /\ n.Name.Value = "__typename"

\* C8 as claimed: calculateQueryComplexity(doc, w) >= 0 for every w >= 1
C8_ComplexityNonNegative ==
    call = "calculateQueryComplexity" => ~IsNeg(ret.complexity)

NoSelections(d) ==
    \A i \in 1..Len(d.Definitions) :
        \/ d.Definitions[i].SelectionSet.isNil
        \/ d.Definitions[i].SelectionSet.Selections = <<>>

\* C18: a document without definitions, or whose definitions all have no selection
\* set or an empty one, has depth 0, alias count 0, complexity 0 for every weight
\* and no introspection, and the four checks allow it
C18_NoSelectionsAllZero ==
    NoSelections(node) =>
        /\ call = "calculateQueryDepth" => ret.depth = 0
        /\ call = "countAliases" => ret.aliases = 0
        /\ call = "calculateQueryComplexity" => ret.complexity = IntW(0)
        /\ call = "hasIntrospection" => ~ret.introspection
        /\ VerdictOfDocument(node) = NoError

\* the complexity of two definitions, one with an empty selection set and one with
\* none, has been computed with the weight 2^62
C18_Witness ==
    /\ call = "calculateQueryComplexity"
    /\ weight = PowW(IntBits - 2, NumLimbs)
    /\ Len(node.Definitions) = 2
    /\ node.Definitions[1].Kind \in DefKinds
    /\ node.Definitions[1].SelectionSet = SelectionSet(<<>>)
    /\ node.Definitions[2].Kind \in DefKinds
    /\ node.Definitions[2].SelectionSet = NilSelectionSet

(***************************************************************************)
(* Growing a document by one sibling leaf field.                           *)
(***************************************************************************)
\* x < y on words of the same length (signed comparison)
LtW(x, y) ==
    IF IsNeg(x) # IsNeg(y) THEN IsNeg(x)
    ELSE \E i \in 1..Len(x) :
            /\ x[i] < y[i]
            /\ \A j \in (i + 1)..Len(x) : x[j] = y[j]

RECURSIVE GrownSelections(_, _)
\* the selection lists got from sels by adding leaf to sels itself or to one
\* selection set below it
GrownSelections(sels, leaf) ==
    {Append(sels, leaf)} \cup
    UNION { IF sels[i].SelectionSet.isNil THEN {}
            ELSE { [sels EXCEPT ![i].SelectionSet.Selections = g] :
                   g \in GrownSelections(sels[i].SelectionSet.Selections, leaf) } :
            i \in 1..Len(sels) }

\* the documents got from d by adding leaf to one of its selection sets
GrownDocs(d, leaf) ==
    UNION { IF d.Definitions[i].Kind \in DefKinds /\ ~d.Definitions[i].SelectionSet.isNil
            THEN { [d EXCEPT !.Definitions[i].SelectionSet.Selections = g] :
                   g \in GrownSelections(d.Definitions[i].SelectionSet.Selections, leaf) }
            ELSE {} :
            i \in 1..Len(d.Definitions) }

\* the leaf fields added: without an alias, with one, with the empty alias
EmptyAliasLeaf == Field(Name("a"), Name(""), NilSelectionSet)
AddedLeaves == {PlainLeaf, AliasedLeaf, EmptyAliasLeaf}

AliasAdded(leaf) == IF HasAlias(leaf) THEN 1 ELSE 0

\* C11 as claimed: adding one sibling leaf field to a selection set never lowers
\* the depth, raises the alias count by one exactly when the leaf has a non-empty
\* alias and by nothing otherwise, and never lowers the complexity
C11_AddedLeafNeverLowers ==
    \A leaf \in AddedLeaves : \A g \in GrownDocs(node, leaf) :
        /\ call = "calculateQueryDepth" => calculateQueryDepth(g, 0) >= ret.depth
        /\ call = "countAliases" => countAliases(g) = ret.aliases + AliasAdded(leaf)
        /\ call = "calculateQueryComplexity" =>
               ~LtW(calculateQueryComplexity(g, weight), ret.complexity)

\* what does hold: the depth and the alias count behave as claimed, and the
\* complexity does not fall as long as neither result has left the width of int
AddedLeafNeverLowersWithinWidth ==
    \A leaf \in AddedLeaves : \A g \in GrownDocs(node, leaf) :
        /\ call = "calculateQueryDepth" => calculateQueryDepth(g, 0) >= ret.depth
        /\ call = "countAliases" => countAliases(g) = ret.aliases + AliasAdded(leaf)
        /\ (/\ call = "calculateQueryComplexity"
            /\ ~IsNeg(calculateQueryComplexity(g, weight))
            /\ Widen(calculateQueryComplexity(g, weight)) = WeightedSum(g, weight)) =>
               ~LtW(calculateQueryComplexity(g, weight), ret.complexity)

(***************************************************************************)
(* The handler of NewHTTP: the claims.                                     *)
(***************************************************************************)
\* the verdict of the validator on the extracted query
QueryVerdict == ValidateGraphQLQuery(query, buildSchemaFromContext(graphCtx))

\* C12: without DEBUG and with EnableValidation, once the validator has returned an
\* error for the extracted query the request is over: the response has status 400
\* and a JSON body whose errors array holds exactly one object, its message the
\* rejection text, and h.ServeHTTP has not been called, with neither writer
C12_RejectionIsTerminal ==
    (/\ ~graphCtx.DEBUG
     /\ graphCtx.EnableValidation
     /\ hpc \notin {"off", "handler", "validate"}
     /\ ~QueryVerdict.isNil) =>
        /\ hpc = "done"
        /\ resp.written
        /\ resp.Status = 400
        /\ resp.Body.Kind = "json"
        /\ resp.Body.Json.Type = "object"
        /\ resp.Body.Json.Members["errors"] =
             JsonList(<<JsonObject("message" :> JsonString(ErrorText(QueryVerdict)))>>)
        /\ served = <<>>
        /\ wrapper.isNil
        /\ ~down.written

\* a form-encoded query over the depth limit has been rejected by a handler that
\* sanitizes responses
C12_Witness ==
    /\ hpc = "done"
    /\ r.Body.Kind = "form"
    /\ graphCtx.EnableSanitization
    /\ validated = <<query>>
    /\ resp.Status = 400
    /\ QueryVerdict.format = DepthFormat

\* the query text a request carries: in the URL of a GET, or in the body of a
\* POST, as the query member of a JSON object, as the query field of a form, or
\* as the body itself when that is query text
CarriedQuery(req) ==
    IF req.Method = "GET" THEN req.URLQuery
    ELSE IF req.Method # "POST" THEN EmptyText
    ELSE IF IsEnvelope(req.Body) THEN req.Body.Json.Members["query"].Str
    ELSE IF req.Body.Kind = "form" THEN req.Body.Query
    ELSE IF req.Body.Kind = "graphql" THEN req.Body
    ELSE EmptyText

\* C14 as claimed: without DEBUG and with EnableValidation, h.ServeHTTP is called
\* for a request carrying a query text (GET parameter, JSON member, form field or
\* raw body) only after that text was passed to ValidateGraphQLQuery
C14_QueryValidatedBeforeServe ==
    (/\ ~graphCtx.DEBUG
     /\ graphCtx.EnableValidation
     /\ served # <<>>
     /\ CarriedQuery(r) # EmptyText) =>
        validated = <<CarriedQuery(r)>>

\* what does hold: the same for the GET parameter, and for the JSON member or the
\* form field of a POST whose Content-Type is not, or is exactly,
\* application/x-www-form-urlencoded
QueryValidatedBeforeServeUnlessRaw ==
    (/\ ~graphCtx.DEBUG
     /\ graphCtx.EnableValidation
     /\ served # <<>>
     /\ CarriedQuery(r) # EmptyText
     /\ \/ r.Method = "GET"
        \/ IsEnvelope(r.Body) /\ r.ContentType # FormContentType
        \/ r.Body.Kind = "form" /\ r.ContentType = FormContentType) =>
        validated = <<CarriedQuery(r)>>

\* C15: ValidateGraphQLQuery is called only when DEBUG is false and
\* EnableValidation is true, the sanitizing wrapper is used only when DEBUG is false
\* and EnableSanitization is true; with DEBUG true, or with a nil GraphContext, the
\* request goes straight to h.ServeHTTP and the client gets what that wrote, also
\* when both flags are on
C15_ChecksOnlyOutsideDebug ==
    /\ validated # <<>> => (~arg.isNil /\ ~arg.DEBUG /\ arg.EnableValidation)
    /\ ~wrapper.isNil => (~arg.isNil /\ ~arg.DEBUG /\ arg.EnableSanitization)
    /\ (hpc \notin {"off", "handler"} /\ (arg.isNil \/ arg.DEBUG)) =>
          /\ hpc = "done"
          /\ validated = <<>>
          /\ wrapper.isNil
          /\ served = <<"w">>
          /\ resp = Written(down)

\* with DEBUG and both flags on, an introspection query was served and a message
\* with a suggestion reached the client
C15_Witness ==
    /\ hpc = "done"
    /\ arg.DEBUG /\ arg.EnableValidation /\ arg.EnableSanitization
    /\ CarriedQuery(r) = IntrospectionQuery
    /\ resp.Body = JsonText(JsonObject("errors" :>
                      JsonList(<<ErrorItem(<<DidYouMean, " ", "\"name\"", "?">>)>>)))

(***************************************************************************)
(* sanitizeAndWrite: the claims.                                           *)
(***************************************************************************)
HasErrorsArray(text) ==
    /\ text.Kind = "json"
    /\ text.Json.Type = "object"
    /\ "errors" \in DOMAIN text.Json.Members
    /\ text.Json.Members["errors"].Type = "array"

ErrorsOf(text) == text.Json.Members["errors"].Items

HasMessage(item) ==
    /\ item.Type = "object"
    /\ "message" \in DOMAIN item.Members
    /\ item.Members["message"].Type = "string"

\* suggestion text: Did you mean, up to a question mark after it
HasSuggestion(message) ==
    \E i \in 1..Len(message) : \E j \in (i + 1)..Len(message) :
        message[i] = DidYouMean /\ message[j] = "?"

RECURSIVE RemainderFrom(_, _)
\* the message from token i on, without every piece of suggestion text
RemainderFrom(message, i) ==
    IF i > Len(message) THEN <<>>
    ELSE LET ends == { j \in (i + 1)..Len(message) : message[j] = "?" }
         IN  IF message[i] = DidYouMean /\ ends # {}
             THEN RemainderFrom(message, (CHOOSE j \in ends : \A k \in ends : j <= k) + 1)
             ELSE <<message[i]>> \o RemainderFrom(message, i + 1)

\* white space collapsed and trimmed
Normalized(message) == TrimSpace(CollapseSpacesFrom(message, 1))

\* every suggestion in the message names exactly one name, after one space
SuggestsOneName(message) ==
    \A i \in 1..Len(message) :
        message[i] = DidYouMean =>
            /\ i + 3 <= Len(message)
            /\ message[i + 1] = " "
            /\ message[i + 2] \in QuotedNames
            /\ message[i + 3] = "?"

\* C20 as claimed: without DEBUG and with EnableSanitization, when the wrapped
\* handler wrote a JSON object with an errors array, every message the client gets
\* is free of suggestion text, whether one name was suggested or several, and is
\* the rest of the original message with its white space collapsed and trimmed
C20_SuggestionsRemoved ==
    (/\ hpc = "done"
     /\ ~graphCtx.DEBUG
     /\ graphCtx.EnableSanitization
     /\ served = <<"wrapper">>
     /\ HasErrorsArray(down.Body)) =>
        /\ HasErrorsArray(resp.Body)
        /\ Len(ErrorsOf(resp.Body)) = Len(ErrorsOf(down.Body))
        /\ \A i \in 1..Len(ErrorsOf(down.Body)) :
             HasMessage(ErrorsOf(down.Body)[i]) =>
                LET before == ErrorsOf(down.Body)[i].Members["message"].Str
                    after == ErrorsOf(resp.Body)[i].Members["message"].Str
                IN  /\ ~HasSuggestion(after)
                    /\ after = Normalized(RemainderFrom(before, 1))

\* what does hold: the same for the messages whose suggestions name one name each
OneNameSuggestionsRemoved ==
    (/\ hpc = "done"
     /\ ~graphCtx.DEBUG
     /\ graphCtx.EnableSanitization
     /\ served = <<"wrapper">>
     /\ HasErrorsArray(down.Body)) =>
        /\ HasErrorsArray(resp.Body)
        /\ Len(ErrorsOf(resp.Body)) = Len(ErrorsOf(down.Body))
        /\ \A i \in 1..Len(ErrorsOf(down.Body)) :
             (/\ HasMessage(ErrorsOf(down.Body)[i])
              /\ SuggestsOneName(ErrorsOf(down.Body)[i].Members["message"].Str)) =>
                LET before == ErrorsOf(down.Body)[i].Members["message"].Str
                    after == ErrorsOf(resp.Body)[i].Members["message"].Str
                IN  /\ ~HasSuggestion(after)
                    /\ after = Normalized(RemainderFrom(before, 1))

(***************************************************************************)
(* The root value: the claims.                                             *)
(***************************************************************************)
\* the map graphCtx.RootObjectFn returns for the request
CustomEntries ==
    IF graphCtx.RootObjectFn.isNil THEN NoEntries ELSE graphCtx.RootObjectFn.returns

\* C19 as claimed: the root value handed to the resolvers holds the entries of the
\* map returned by GraphContext.RootObjectFn, next to token and details
C19_RootValueHoldsCustomEntries ==
    hpc = "returned" =>
        \A k \in DOMAIN CustomEntries :
            /\ k \in DOMAIN rootValue.entries
            /\ k \notin {"token", "details"} => rootValue.entries[k] = CustomEntries[k]

\* what does hold: the root value holds token, when the extracted token is not
\* empty, details, when moreover UserDetailsFn returned no error, and nothing else
RootValueIsTokenAndDetails ==
    hpc = "returned" =>
        LET token == ExtractedToken(graphCtx, r)
        IN  /\ DOMAIN rootValue.entries \subseteq {"token", "details"}
            /\ "token" \in DOMAIN rootValue.entries <=> token # <<>>
            /\ token # <<>> => rootValue.entries["token"] = token
            /\ "details" \in DOMAIN rootValue.entries <=>
                  /\ token # <<>>
                  /\ ~graphCtx.UserDetailsFn.isNil
                  /\ ~graphCtx.UserDetailsFn.returns.err

(***************************************************************************)
(* Concurrent calls: the claims.                                           *)
(***************************************************************************)
\* C16: the verdict does not depend on the schema argument: two calls with the
\* same body return the same error whatever their schemas, nil included, and that
\* error is the one the body gets with every schema
C16_VerdictIgnoresSchema ==
    \A i \in DOMAIN calls :
        calls[i].pc = "done" =>
            /\ \A j \in DOMAIN calls :
                 (calls[j].pc = "done" /\ calls[j].body = calls[i].body) =>
                     calls[j].err = calls[i].err
            /\ \A s \in Schemas : calls[i].err = ValidateGraphQLQuery(calls[i].body, s)

\* two calls with the same body, one with a nil schema and one with a schema, have
\* both rejected it
C16_Witness ==
    /\ Len(calls) = 2
    /\ calls[1].pc = "done" /\ calls[2].pc = "done"
    /\ calls[1].body = calls[2].body
    /\ calls[1].schema.isNil /\ ~calls[2].schema.isNil
    /\ ~calls[1].err.isNil

RECURSIVE WrappedSelections(_)
\* the selection lists got from sels by putting all selections of sels, or of one
\* selection set below it, into an inline fragment
WrappedSelections(sels) ==
    {<<InlineFragment(SelectionSet(sels))>>} \cup
    UNION { IF sels[i].SelectionSet.isNil THEN {}
            ELSE { [sels EXCEPT ![i].SelectionSet.Selections = g] :
                   g \in WrappedSelections(sels[i].SelectionSet.Selections) } :
            i \in 1..Len(sels) }

RECURSIVE SplicedSelections(_)
\* the selection lists got from sels by replacing one inline fragment, in sels or
\* below, by its own selections
SplicedSelections(sels) ==
    UNION { (IF sels[i].Kind = "InlineFragment"
             THEN { SubSeq(sels, 1, i - 1) \o sels[i].SelectionSet.Selections
                    \o SubSeq(sels, i + 1, Len(sels)) }
             ELSE {})
            \cup
            (IF sels[i].SelectionSet.isNil THEN {}
             ELSE { [sels EXCEPT ![i].SelectionSet.Selections = g] :
                    g \in SplicedSelections(sels[i].SelectionSet.Selections) }) :
            i \in 1..Len(sels) }

\* the documents got from d by one such step in one of its definitions
WrappedDocs(d) ==
    UNION { IF d.Definitions[i].Kind \in DefKinds /\ ~d.Definitions[i].SelectionSet.isNil
            THEN { [d EXCEPT !.Definitions[i].SelectionSet.Selections = g] :
                   g \in WrappedSelections(d.Definitions[i].SelectionSet.Selections) }
            ELSE {} :
            i \in 1..Len(d.Definitions) }

SplicedDocs(d) ==
    UNION { IF d.Definitions[i].Kind \in DefKinds /\ ~d.Definitions[i].SelectionSet.isNil
            THEN { [d EXCEPT !.Definitions[i].SelectionSet.Selections = g] :
                   g \in SplicedSelections(d.Definitions[i].SelectionSet.Selections) }
            ELSE {} :
            i \in 1..Len(d.Definitions) }

InlineVariants(d) == WrappedDocs(d) \cup SplicedDocs(d)

\* C21: putting the selections of a selection set into an inline fragment, or
\* replacing an inline fragment by its selections, changes the result of no
\* analyzer: no depth level is added and the multiplier is not doubled
C21_InlineFragmentsTransparent ==
    \A g \in InlineVariants(node) :
        /\ call = "calculateQueryDepth" => calculateQueryDepth(g, 0) = ret.depth
        /\ call = "countAliases" => countAliases(g) = ret.aliases
        /\ call = "calculateQueryComplexity" =>
               calculateQueryComplexity(g, weight) = ret.complexity
        /\ call = "hasIntrospection" => hasIntrospection(g) = ret.introspection

\* the complexity of a document with an aliased field below an inline fragment
\* below a field has been computed
C21_Witness ==
    /\ call = "calculateQueryComplexity"
    /\ ret.complexity = IntW(3)
    /\ weight = IntW(1)
    /\ node = Document(<<OperationDefinition(SelectionSet(
                <<Wrap("field", SelectionSet(
                    <<InlineFragment(SelectionSet(<<AliasedLeaf>>))>>))>>))>>)

\* the names a fragment spread is given: the defined fragment, another name, a
\* name without definition
SpreadNames == {"F", "G", "Missing"}

RECURSIVE RenamedSelections(_)
\* the selection lists got from sels by giving one fragment spread, in sels or
\* below, another name
RenamedSelections(sels) ==
    UNION { (IF sels[i].Kind = "FragmentSpread"
             THEN { [sels EXCEPT ![i] = FragmentSpread(name)] :
                    name \in SpreadNames \ {sels[i].Name.Value} }
             ELSE {})
            \cup
            (IF sels[i].SelectionSet.isNil THEN {}
             ELSE { [sels EXCEPT ![i].SelectionSet.Selections = g] :
                    g \in RenamedSelections(sels[i].SelectionSet.Selections) }) :
            i \in 1..Len(sels) }

RenamedDocs(d) ==
    UNION { IF d.Definitions[i].Kind \in DefKinds /\ ~d.Definitions[i].SelectionSet.isNil
            THEN { [d EXCEPT !.Definitions[i].SelectionSet.Selections = g] :
                   g \in RenamedSelections(d.Definitions[i].SelectionSet.Selections) }
            ELSE {} :
            i \in 1..Len(d.Definitions) }

RECURSIVE RepeatedSelections(_)
\* the selection lists got from sels by writing one fragment spread, in sels or
\* below, two to MaxNodes + 1 times
RepeatedSelections(sels) ==
    UNION { (IF sels[i].Kind = "FragmentSpread"
             THEN { SubSeq(sels, 1, i - 1) \o Repeat(sels[i], c)
                    \o SubSeq(sels, i + 1, Len(sels)) : c \in 2..(MaxNodes + 1) }
             ELSE {})
            \cup
            (IF sels[i].SelectionSet.isNil THEN {}
             ELSE { [sels EXCEPT ![i].SelectionSet.Selections = g] :
                    g \in RepeatedSelections(sels[i].SelectionSet.Selections) }) :
            i \in 1..Len(sels) }

RepeatedDocs(d) ==
    UNION { IF d.Definitions[i].Kind \in DefKinds /\ ~d.Definitions[i].SelectionSet.isNil
            THEN { [d EXCEPT !.Definitions[i].SelectionSet.Selections = g] :
                   g \in RepeatedSelections(d.Definitions[i].SelectionSet.Selections) }
            ELSE {} :
            i \in 1..Len(d.Definitions) }

RECURSIVE ExpandedSelections(_, _)
\* sels with every fragment spread replaced by the selections fragmentBody
ExpandedSelections(sels, fragmentBody) ==
    [i \in 1..Len(sels) |->
        IF sels[i].Kind = "FragmentSpread" THEN InlineFragment(SelectionSet(fragmentBody))
        ELSE IF sels[i].SelectionSet.isNil THEN sels[i]
        ELSE [sels[i] EXCEPT !.SelectionSet.Selections =
                  ExpandedSelections(sels[i].SelectionSet.Selections, fragmentBody)]]

\* the operations of d with the spreads replaced by the body of the fragment
\* definition of d (what the executor runs), for d with one fragment definition
Expanded(d) ==
    LET fragments == { i \in 1..Len(d.Definitions) :
                         d.Definitions[i].Kind = "FragmentDefinition" }
        fragmentBody == d.Definitions[CHOOSE i \in fragments : TRUE].SelectionSet.Selections
    IN  Document([i \in 1..Len(d.Definitions) |->
            IF d.Definitions[i].Kind = "OperationDefinition"
               /\ ~d.Definitions[i].SelectionSet.isNil
            THEN [d.Definitions[i] EXCEPT !.SelectionSet.Selections =
                      ExpandedSelections(d.Definitions[i].SelectionSet.Selections,
                                         fragmentBody)]
            ELSE d.Definitions[i]])

\* C22: a fragment spread is not expanded: alone in a selection set at depth k
\* and multiplier weight it gives depth k, no alias, complexity weight and no
\* introspection match; giving a spread another name changes no analyzer's
\* result, and writing it several times changes neither depth nor alias count
C22_FragmentSpreadNotExpanded ==
    /\ \A name \in SpreadNames :
         LET ss == SelectionSet(<<FragmentSpread(name)>>)
         IN  /\ call = "calculateQueryDepth" =>
                   \A k \in 0..maxDepth : calculateSelectionSetDepth(ss, k) = k
             /\ call = "countAliases" => countSelectionSetAliases(ss) = 0
             /\ call = "calculateQueryComplexity" =>
                   calculateSelectionSetComplexity(ss, weight) = weight
             /\ call = "hasIntrospection" => ~hasIntrospectionInSelectionSet(ss)
    /\ \A g \in RenamedDocs(node) :
        /\ call = "calculateQueryDepth" => calculateQueryDepth(g, 0) = ret.depth
        /\ call = "countAliases" => countAliases(g) = ret.aliases
        /\ call = "calculateQueryComplexity" =>
               calculateQueryComplexity(g, weight) = ret.complexity
        /\ call = "hasIntrospection" => hasIntrospection(g) = ret.introspection
    /\ \A g \in RepeatedDocs(node) :
        /\ call = "calculateQueryDepth" => calculateQueryDepth(g, 0) = ret.depth
        /\ call = "countAliases" => countAliases(g) = ret.aliases

\* the depth of a document was computed that the four checks allow and whose
\* operation, with its spread replaced by the fragment, is deeper than maxDepth
C22_Witness ==
    /\ call = "calculateQueryDepth"
    /\ node \in SpreadDocs
    /\ ret.depth <= maxDepth
    /\ VerdictOfDocument(node) = NoError
    /\ calculateQueryDepth(Expanded(node), 0) > maxDepth

\* the aliases of a document were counted that the four checks allow and whose
\* operation, with its spreads replaced by the fragment, has more than maxAliases
ExpandedAliasesOverLimitAllowed ==
    /\ call = "countAliases"
    /\ node \in SpreadDocs
    /\ ret.aliases <= maxAliases
    /\ VerdictOfDocument(node) = NoError
    /\ countAliases(Expanded(node)) > maxAliases + ret.aliases

\* the fragment definitions of d, by position
FragmentDefinitions(d) ==
    { i \in 1..Len(d.Definitions) : d.Definitions[i].Kind = "FragmentDefinition" }

\* d without its i-th definition
WithoutDefinition(d, i) ==
    Document(SubSeq(d.Definitions, 1, i - 1)
             \o SubSeq(d.Definitions, i + 1, Len(d.Definitions)))

\* the document of one operation with the body of the i-th definition of d
AsOperation(d, i) == Document(<<OperationDefinition(d.Definitions[i].SelectionSet)>>)

\* C23: each fragment definition of the document counts once, from depth 0 and
\* the base weight, as an operation with its body would: the depth is the greater
\* of the depth without it and the depth of that operation, alias count and
\* complexity are the sums, the introspection result is the disjunction; a
\* reserved field in a fragment definition is detected and the document rejected
C23_FragmentDefinitionCountsOnce ==
    \A i \in FragmentDefinitions(node) :
        LET rest == WithoutDefinition(node, i)
            op == AsOperation(node, i)
        IN  /\ call = "calculateQueryDepth" =>
                  ret.depth = IF calculateQueryDepth(op, 0) > calculateQueryDepth(rest, 0)
                              THEN calculateQueryDepth(op, 0)
                              ELSE calculateQueryDepth(rest, 0)
            /\ call = "countAliases" =>
                  ret.aliases = countAliases(rest) + countAliases(op)
            /\ call = "calculateQueryComplexity" =>
                  ret.complexity = AddW(calculateQueryComplexity(rest, weight),
                                        calculateQueryComplexity(op, weight))
            /\ call = "hasIntrospection" =>
                  /\ ret.introspection = (hasIntrospection(rest) \/ hasIntrospection(op))
                  /\ hasIntrospectionInSelectionSet(node.Definitions[i].SelectionSet) =>
                         /\ ret.introspection
                         /\ VerdictOfDocument(node) = Errorf(IntrospectionFormat, <<>>)

\* the introspection check has run on a document whose operation is plain and
\* references no fragment, and whose fragment definition holds __schema
C23_Witness ==
    /\ call = "hasIntrospection"
    /\ ret.introspection
    /\ node = Document(<<OperationDefinition(SelectionSet(<<PlainLeaf>>)),
                         FragmentDefinition(SelectionSet(<<SchemaLeaf>>))>>)

\* the depth of a document was computed whose fragment is referenced MaxNodes
\* times and is deeper than the operation
ReferencedFragmentCountsOnce ==
    /\ call = "calculateQueryDepth"
    /\ node \in SpreadDocs
    /\ RepeatedDocs(node) # {}
    /\ ret.depth = calculateQueryDepth(AsOperation(node, 2), 0)
    /\ ret.depth > calculateQueryDepth(WithoutDefinition(node, 2), 0)

(***************************************************************************)
(* The functions of the GraphContext: the order of their calls.            *)
(***************************************************************************)
\* the calls the closure is to make for the request, in order
CallbacksInOrder ==
    (IF graphCtx.RootObjectFn.isNil THEN <<>> ELSE <<"RootObjectFn">>)
    \o << IF graphCtx.TokenExtractorFn.isNil THEN "ExtractBearerToken"
          ELSE "TokenExtractorFn" >>
    \o (IF ExtractedToken(graphCtx, r) # <<>> /\ ~graphCtx.UserDetailsFn.isNil
        THEN <<"UserDetailsFn">> ELSE <<>>)

\* C24: the closure calls RootObjectFn when set, then the token extractor
\* (TokenExtractorFn, or ExtractBearerToken when it is nil), then UserDetailsFn,
\* this one only when set and the token is not empty; the root value it returns
\* holds token iff the token is not empty and details iff moreover UserDetailsFn
\* is set and returned no error, and an error of UserDetailsFn leaves the root
\* value returned with the token
C24_CallbacksInOrder ==
    hpc \in {"root", "token", "details", "return", "returned"} =>
        LET token == ExtractedToken(graphCtx, r)
        IN  /\ Len(invoked) <= Len(CallbacksInOrder)
            /\ invoked = SubSeq(CallbacksInOrder, 1, Len(invoked))
            /\ hpc \in {"return", "returned"} => invoked = CallbacksInOrder
            /\ (\E i \in DOMAIN invoked : invoked[i] = "UserDetailsFn") =>
                   token # <<>> /\ ~graphCtx.UserDetailsFn.isNil
            /\ hpc = "returned" =>
                   /\ ~rootValue.isNil
                   /\ rootValue.entries = RootObject(graphCtx, r)
                   /\ "token" \in DOMAIN rootValue.entries <=> token # <<>>
                   /\ "details" \in DOMAIN rootValue.entries <=>
                          /\ token # <<>>
                          /\ ~graphCtx.UserDetailsFn.isNil
                          /\ ~graphCtx.UserDetailsFn.returns.err

\* the closure has returned after calling the three functions, UserDetailsFn
\* with an error: the root value holds the token alone
C24_Witness ==
    /\ hpc = "returned"
    /\ invoked = <<"RootObjectFn", "TokenExtractorFn", "UserDetailsFn">>
    /\ graphCtx.UserDetailsFn.returns.err
    /\ DOMAIN rootValue.entries = {"token"}

\* the closure has returned after ExtractBearerToken alone, with an empty root value
DefaultExtractorOnly ==
    /\ hpc = "returned"
    /\ invoked = <<"ExtractBearerToken">>
    /\ ~graphCtx.UserDetailsFn.isNil
    /\ DOMAIN rootValue.entries = {}

(***************************************************************************)
(* Depth against complexity.                                               *)
(***************************************************************************)
\* c >= w * (2^d - 1), exactly: c is not negative and c + w >= w * 2^d
AtLeastTwoToDepthLessOne(c, w, d) ==
    /\ ~IsNeg(c)
    /\ ~LtW(AddW(Widen(c), Widen(w)), ShiftW(Widen(w), d))

\* C25 as claimed: the complexity of a document is at least 2^depth - 1 times the
\* base weight, each field on the deepest path being charged the weight doubled
\* once per field above it (the claim's base weight is 1; a selection set k fields
\* down is walked with the weight 2^k)
C25_ComplexityAtLeastTwoToDepth ==
    call = "calculateQueryComplexity" =>
        AtLeastTwoToDepthLessOne(ret.complexity, weight, calculateQueryDepth(node, 0))

\* what does hold: the bound, whenever the result is the exact sum
ComplexityAtLeastTwoToDepthWithinWidth ==
    (/\ call = "calculateQueryComplexity"
     /\ ~IsNeg(ret.complexity)
     /\ Widen(ret.complexity) = WeightedSum(node, weight)) =>
        AtLeastTwoToDepthLessOne(ret.complexity, weight, calculateQueryDepth(node, 0))

\* the least depth whose 2^depth - 1 is more than maxComplexity
RejectedDepth ==
    CHOOSE k \in 1..maxDepth :
        2 ^ k - 1 > maxComplexity /\ 2 ^ (k - 1) - 1 <= maxComplexity

\* what does hold in ValidateGraphQLQuery: a parsed document that is allowed has
\* a depth below RejectedDepth; one of depth RejectedDepth to maxDepth passes the
\* depth check and is rejected for its aliases or its complexity, or before the
\* depth check for introspection
AllowedDepthBelowRejectedDepth ==
    (pc = "done" /\ Parsed) =>
        LET k == calculateQueryDepth(ParsedDoc, 0)
        IN  /\ err.isNil => k < RejectedDepth
            /\ (k >= RejectedDepth /\ k <= maxDepth) =>
                 /\ ~err.isNil
                 /\ err.format \in {IntrospectionFormat, AliasFormat, ComplexityFormat}
                 /\ err.format # IntrospectionFormat => "calculateQueryDepth" = ran[2]
                 /\ err.format = ComplexityFormat =>
                        ~LtW(err.args[2], IntW(2 ^ RejectedDepth - 1))

\* a document of depth RejectedDepth was rejected for its complexity
DepthEightRejectedForComplexity ==
    /\ pc = "done"
    /\ Parsed
    /\ depth = RejectedDepth
    /\ err = Errorf(ComplexityFormat, <<IntW(maxComplexity), IntW(2 ^ RejectedDepth - 1)>>)

(***************************************************************************)
(* The multipliers on the path through ValidateGraphQLQuery.               *)
(***************************************************************************)
RECURSIVE AppliedMultipliers(_, _)
\* the multipliers calculateSelectionSetComplexity adds to complexity for the
\* selections sels and below, each with the kind of the node it is added for
AppliedMultipliers(sels, multiplier) ==
    UNION { (IF sels[i].Kind \in {"Field", "FragmentSpread"}
             THEN {[Kind |-> sels[i].Kind, multiplier |-> multiplier]} ELSE {})
            \cup
            (CASE sels[i].Kind = "Field" /\ ~sels[i].SelectionSet.isNil ->
                      AppliedMultipliers(sels[i].SelectionSet.Selections,
                                         NestedMultiplier(multiplier))
               [] sels[i].Kind = "InlineFragment" /\ ~sels[i].SelectionSet.isNil ->
                      AppliedMultipliers(sels[i].SelectionSet.Selections,
                                         InlineFragmentMultiplier(multiplier))
               [] OTHER -> {}) :
            i \in 1..Len(sels) }

\* the same for calculateQueryComplexity(d, baseWeight) on a document
DocumentMultipliers(d, baseWeight) ==
    UNION { IF d.Definitions[i].Kind \in DefKinds /\ ~d.Definitions[i].SelectionSet.isNil
            THEN AppliedMultipliers(d.Definitions[i].SelectionSet.Selections, baseWeight)
            ELSE {} :
            i \in 1..Len(d.Definitions) }

\* C26: in ValidateGraphQLQuery the complexity is computed only for a document of
\* depth at most maxDepth; the multiplier added for a node is then at most
\* 2^maxDepth, and at most 2^(maxDepth - 1) for a field, the complexity is the
\* exact sum, and the value in a complexity rejection is positive and above
\* maxComplexity
C26_MultiplierBoundedOnPolicyPath ==
    (\E i \in DOMAIN ran : ran[i] = "calculateQueryComplexity") =>
        /\ calculateQueryDepth(doc, 0) <= maxDepth
        /\ \A a \in DocumentMultipliers(doc, IntW(1)) :
             /\ ~IsNeg(a.multiplier)
             /\ ~GtW(a.multiplier, 2 ^ maxDepth)
             /\ a.Kind = "Field" => ~GtW(a.multiplier, 2 ^ (maxDepth - 1))
        /\ ~IsNeg(complexity)
        /\ Widen(complexity) = WeightedSum(doc, IntW(1))
        /\ (~err.isNil /\ err.format = ComplexityFormat) =>
             /\ err.args[2] = complexity
             /\ GtW(err.args[2], maxComplexity)

\* a document of maxDepth nested fields around a fragment spread was rejected for
\* its complexity: the spread was charged 2^maxDepth, the innermost field half
C26_Witness ==
    /\ pc = "done"
    /\ depth = maxDepth
    /\ [Kind |-> "FragmentSpread", multiplier |-> IntW(2 ^ maxDepth)]
           \in DocumentMultipliers(doc, IntW(1))
    /\ [Kind |-> "Field", multiplier |-> IntW(2 ^ (maxDepth - 1))]
           \in DocumentMultipliers(doc, IntW(1))
    /\ err = Errorf(ComplexityFormat, <<IntW(maxComplexity), IntW(2 ^ (maxDepth + 1) - 1)>>)

(***************************************************************************)
(* The handler of NewHTTP: every method and Content-Type.                  *)
(***************************************************************************)
\* the query texts a request carries, whatever its method and Content-Type: the
\* query parameter of its URL, and in its body the query member of a JSON object,
\* the query field of a form, or the body itself when that is query text
CarriedTexts(req) ==
    ({ req.URLQuery }
     \cup (IF IsEnvelope(req.Body) THEN { req.Body.Json.Members["query"].Str }
           ELSE IF req.Body.Kind = "form" THEN { req.Body.Query }
           ELSE IF req.Body.Kind = "graphql" THEN { req.Body }
           ELSE {}))
    \ { EmptyText }

\* C27 as claimed: without DEBUG and with EnableValidation, h.ServeHTTP is called
\* only after ValidateGraphQLQuery was called on each query text the request
\* carries and returned nil, for every method and Content-Type
C27_NoRequestBypassesValidation ==
    (/\ ~graphCtx.DEBUG
     /\ graphCtx.EnableValidation
     /\ served # <<>>) =>
        \A q \in CarriedTexts(r) :
            /\ \E i \in DOMAIN validated : validated[i] = q
            /\ ValidateGraphQLQuery(q, buildSchemaFromContext(graphCtx)).isNil

\* what does hold: h.ServeHTTP is called only after the text the closure
\* extracted, when there is one, was passed to ValidateGraphQLQuery and allowed
ExtractedQueryAllowedBeforeServe ==
    (/\ ~graphCtx.DEBUG
     /\ graphCtx.EnableValidation
     /\ served # <<>>) =>
        /\ validated = IF query = EmptyText THEN <<>> ELSE <<query>>
        /\ ValidateGraphQLQuery(query, buildSchemaFromContext(graphCtx)).isNil

\* a POST with an allowed query in its JSON body and __schema in its URL was served
UrlQueryOfPostServed ==
    /\ ~graphCtx.DEBUG
    /\ graphCtx.EnableValidation
    /\ r.Method = "POST"
    /\ r.URLQuery = IntrospectionQuery
    /\ validated = <<GraphQLText(Tower(0, <<PlainLeaf>>, {}, 0))>>
    /\ served # <<>>

\* C28 as claimed: the text ValidateGraphQLQuery parses and analyzes is the text
\* the closure extracted and handed to it: the unwrapping of a JSON envelope at
\* the start of ValidateGraphQLQuery puts no other text in its place, also when
\* the extracted text is a JSON object with a string query member
C28_AnalyzedTextIsExtractedText ==
    \A i \in DOMAIN validated :
        /\ validated[i] = query
        /\ ExtractQueryString(validated[i]) = validated[i]
        /\ Parse(ExtractQueryString(validated[i])) = Parse(validated[i])

\* what does hold: the same, unless the extracted text is such a JSON object
AnalyzedTextIsExtractedUnlessEnvelope ==
    \A i \in DOMAIN validated :
        /\ validated[i] = query
        /\ ~IsEnvelope(validated[i]) =>
             /\ ExtractQueryString(validated[i]) = validated[i]
             /\ Parse(ExtractQueryString(validated[i])) = Parse(validated[i])

\* a request whose extracted query is a JSON envelope around __schema was
\* rejected for introspection, while the text itself does not parse
EnvelopeQueryRejected ==
    /\ hpc = "done"
    /\ IsEnvelope(query)
    /\ Parse(query).err
    /\ served = <<>>
    /\ resp = RejectionResponse(Errorf(IntrospectionFormat, <<>>))

(***************************************************************************)
(* The wrapper: the claims.                                                *)
(***************************************************************************)
RECURSIVE LastStatus(_, _)
\* the status code of the last WriteHeader among the first n calls, 200 without
LastStatus(cs, n) ==
    IF n = 0 THEN 200
    ELSE IF cs[n].method = "WriteHeader" THEN cs[n].statusCode
    ELSE LastStatus(cs, n - 1)

RECURSIVE PiecesWritten(_, _)
\* the pieces of the Write calls among the first n calls, in their order
PiecesWritten(cs, n) ==
    IF n = 0 THEN <<>>
    ELSE PiecesWritten(cs, n - 1)
         \o (IF cs[n].method = "Write" THEN Pieces(cs[n].b) ELSE <<>>)

\* C29: while h.ServeHTTP runs on the wrapper, and until sanitizeAndWrite, no call
\* reaches the client's ResponseWriter; sanitizeAndWrite then calls WriteHeader
\* once, with the last status code set on the wrapper (200 without), and then
\* Write once, with the bytes written to the wrapper in their order, which are
\* passed on as they are unless they are a JSON object with an errors array
C29_WrapperBuffersEverything ==
    /\ hpc \in {"downstream", "sanitize"} => underlying = <<>> /\ resp = NoResponse
    /\ (hpc = "done" /\ served = <<"wrapper">>) =>
         LET written == TextOf(PiecesWritten(wcalls, Len(wcalls)))
         IN  /\ Len(underlying) = 2
             /\ underlying[1] = WriteHeaderCall(LastStatus(wcalls, Len(wcalls)))
             /\ underlying[2].method = "Write"
             /\ ~HasErrorsArray(written) => underlying[2].b = written
             /\ HasErrorsArray(written) => underlying[2].b = SanitizedBody(written)
             /\ resp.Status = underlying[1].statusCode
             /\ resp.Body = underlying[2].b

\* the handler wrote a body with an errors array in two parts and set the status
\* afterwards; the client's writer got the status and then the sanitized body
C29_Witness ==
    /\ hpc = "done"
    /\ wcalls = <<WriteCall(FirstPart(ErrorsBody)), WriteCall(SecondPart(ErrorsBody)),
                  WriteHeaderCall(500)>>
    /\ underlying = <<WriteHeaderCall(500), WriteCall(SanitizedBody(ErrorsBody))>>
    /\ SanitizedBody(ErrorsBody) # ErrorsBody

\* the handler set two status codes and wrote the parts in the wrong order: the
\* bytes reach the client's writer as written
PartsOutOfOrderPassedOn ==
    /\ hpc = "done"
    /\ wcalls = <<WriteHeaderCall(400), WriteCall(SecondPart(ErrorsBody)),
                  WriteCall(FirstPart(ErrorsBody))>>
    /\ underlying[1] = WriteHeaderCall(400)
    /\ underlying[2].b.Kind = "bytes"
    /\ underlying[2].b.Pieces = <<SecondPart(ErrorsBody), FirstPart(ErrorsBody)>>

\* C30: a POST that reaches h.ServeHTTP has in r.Body the bytes the client sent,
\* all of them still to be read, whatever its Content-Type, whether or not a query
\* was extracted or validated; when the body cannot be read the client gets 400
\* and h.ServeHTTP is not called
C30_BodyForwardedWhole ==
    /\ (r.Method = "POST" /\ (served # <<>> \/ hpc = "serve")) => rBody = Reader(r.Body)
    /\ (r.Method = "POST" /\ r.ReadErr /\ ~SkipsChecks(graphCtx) /\ hpc # "handler") =>
         /\ hpc = "done"
         /\ served = <<>>
         /\ validated = <<>>
         /\ resp = ReadErrorResponse

\* a form POST whose query was extracted and validated was served with its body
C30_Witness ==
    /\ r.Method = "POST"
    /\ r.ContentType = FormContentType
    /\ r.Body.Kind = "form"
    /\ query # EmptyText
    /\ validated = <<query>>
    /\ served # <<>>
    /\ rBody = Reader(r.Body)

\* a POST whose body could not be read was answered with 400
UnreadableBodyRefused ==
    /\ r.Method = "POST"
    /\ r.ReadErr
    /\ hpc = "done"
    /\ served = <<>>
    /\ resp.Status = 400

=============================================================================
